---- MODULE Spec2Model ----
(***************************************************************************)
(* State-machine model of the masonry-snap-grid-layout engine.            *)
(*                                                                         *)
(* Two engine variants live in the repository and both are modelled:      *)
(*   "generator" : src/src/MasonrySnapGridLayout.ts  (generateItems,      *)
(*                 addItems, shuffleItems, calculateLayout, applyLayout)   *)
(*   "pooled"    : src/unnamed/part_002 (items + renderItem, updateItems,  *)
(*                 element pool, isDestroyed flag, last-width cache)       *)
(* The variable `variant` selects which class was instantiated.            *)
(*                                                                         *)
(* Lengths are exact rationals <<numerator, denominator>> in lowest terms  *)
(* (the code computes them in floating point); heights, gutters and        *)
(* container widths are integers.  Column indices are 0-based as in the    *)
(* code; TLA+ sequences are 1-based, so column c is columnHeights[c + 1].  *)
(***************************************************************************)
EXTENDS Integers, Sequences, FiniteSets, TLC

(***************************************************************************)
(* Bounds of the model.                                                    *)
(***************************************************************************)
MaxItems == 2       \* most item handles a lifecycle instance ever holds
MaxLayoutItems == 3 \* most items of the layout-only specification
MaxHeight == 2      \* item heights of the layout-only specification: 0..MaxHeight
MaxBurst == 3       \* most resize notifications counted before a frame runs
MaxWide == 9        \* widest container of the layout-only specification
MaxGutter == 2      \* largest gutter of the layout-only specification
MaxMinCol == 3      \* largest minColWidth of the layout-only specification
MaxImages == 4      \* most <img> elements inside the container of the React wrapper
MaxInits == 2       \* most runs of the wrapper's initialisation effect
MaxChainImages == 1 \* most <img> elements awaited by one initial-layout chain

(***************************************************************************)
(* Arithmetic helpers.                                                     *)
(***************************************************************************)
Max(a, b) == IF a >= b THEN a ELSE b

RECURSIVE GCD(_, _)
GCD(a, b) == IF b = 0 THEN a ELSE GCD(b, a % b)

\* the rational n/d (d > 0, n >= 0) in lowest terms
Frac(n, d) == LET k == GCD(n, d) IN <<n \div k, d \div k>>

FracAddInt(q, i) == Frac(q[1] + i * q[2], q[2])
FracMulInt(q, i) == Frac(q[1] * i, q[2])
FracZero == <<0, 1>>

\* largest element of a sequence of naturals (0 for the empty sequence)
SeqMax(s) ==
    IF DOMAIN s = {} THEN 0
    ELSE CHOOSE m \in {s[i] : i \in DOMAIN s} : \A i \in DOMAIN s : s[i] <= m

\* smallest element of a sequence of naturals (0 for the empty sequence)
SeqMin(s) ==
    IF DOMAIN s = {} THEN 0
    ELSE CHOOSE m \in {s[i] : i \in DOMAIN s} : \A i \in DOMAIN s : m <= s[i]

Range(s) == {s[i] : i \in DOMAIN s}

(***************************************************************************)
(* Program state.                                                          *)
(***************************************************************************)
VARIABLES
    variant,            \* which engine class is instantiated
    container,          \* the constructor's first argument: "element" | "null"
    phase,              \* lifecycle: "uninit" | "active" | "destroyed" | "failed"
    options,            \* the caller's options; the resolved options once constructed
    \* ---- the container element and its surroundings (DOM) ----
    width,              \* content width of the container when rendered
    isConnected,        \* container.isConnected
    classList,          \* container.classList
    cStyle,             \* container inline style: property -> value
    children,           \* container child elements, in document order
    content,            \* handle -> rendered datum (its natural height)
    itemStyle,          \* handle -> inline width/transform/transition
    itemInline,         \* handle -> inline display/visibility/position
    preClass,           \* classList immediately before construct
    preStyle,           \* inline style immediately before construct
    \* ---- engine fields ----
    items,
    positions,
    lastPositions,
    columnHeights,
    columns,
    resizeRaf,          \* generator: stored frame handle (0 = null)
    rafId,              \* pooled: stored frame handle (0 = null)
    observing,          \* a ResizeObserver is observing the container
    windowListener,     \* generator: window 'resize' listener attached
    lastContainerWidth,
    itemPool,
    isDestroyed,
    \* ---- event loop ----
    frames,             \* handles of scheduled, not yet run, frame callbacks
    roPending,          \* the observer holds an undelivered size change
    winPending,         \* a window resize event is queued
    \* ---- observation (history) ----
    burst,              \* notifications delivered since a frame last ran
    last,               \* the step just taken: its name, inputs, snapshot
    measure,            \* pooled: the styles around the latest measureItems call
    \* ---- React wrapper: src/src/react.tsx ----
    react,              \* component: mounted, effect runs, masonryRef, isMountedRef,
                        \*   the frame of the items effect
    chain,              \* effect run -> its doInitialLayout: position, cancelled, rafId
    wait,               \* effect run -> the waitForImages promise of its chain
    calls               \* updateItems calls made by the wrapper's deferred steps

dom == <<width, isConnected, classList, cStyle, children, content, itemStyle>>
pre == <<preClass, preStyle>>
engine == <<items, positions, lastPositions, columnHeights, columns,
            resizeRaf, rafId, observing, windowListener,
            lastContainerWidth, itemPool, isDestroyed>>
loop == <<frames, roPending, winPending>>
hist == <<burst, last>>
wrapper == <<react, chain, wait, calls>>
measurement == <<itemInline, measure>>
vars == <<variant, container, phase, options, dom, pre, engine, loop, hist, wrapper,
          measurement>>

(***************************************************************************)
(* DOM reads.                                                              *)
(***************************************************************************)
\* container.clientWidth: 0 for an element that is not rendered
clientWidthOf(conn, w) == IF conn THEN w ELSE 0
clientWidth == clientWidthOf(isConnected, width)

\* mutant: an element outside the document still reports its content height
offsetHeightOfDetached(conn, kids, ct, h) ==
    IF h \in DOMAIN ct THEN ct[h] ELSE 0

\* item.offsetHeight: the content's height, 0 when the item is not rendered
offsetHeightOf(conn, kids, ct, h) ==
    IF conn /\ h \in Range(kids) /\ h \in DOMAIN ct THEN ct[h] ELSE 0

EmptyStyle == [p \in {} |-> 0]
SetProp(s, p, v) == [q \in (DOMAIN s) \cup {p} |-> IF q = p THEN v ELSE s[q]]

EmptyMap == [h \in {} |-> 0]
MapPut(f, h, v) == [k \in (DOMAIN f) \cup {h} |-> IF k = h THEN v ELSE f[k]]
MapKeep(f, keep) == [k \in (DOMAIN f) \cap keep |-> f[k]]

SeqWithout(s, gone) == SelectSeq(s, LAMBDA e : e \notin gone)

\* the wrapper component before React has committed it: useRef(null) for
\* masonryRef (0), useRef(true) for isMountedRef, no effect has run
Unmounted ==
    [mounted |-> FALSE, runs |-> 0, masonryRef |-> 0, isMounted |-> TRUE,
     itemsFrame |-> 0]

(***************************************************************************)
(* Column Planner.                                                         *)
(***************************************************************************)
\* mutant: the gutter is left out of the numerator
ColumnCountNoGutter(containerWidth, gutter, minColWidth) ==
    Max(1, containerWidth \div (minColWidth + gutter))

\* mutant: Math.ceil instead of Math.floor
ColumnCountRoundUp(containerWidth, gutter, minColWidth) ==
    Max(1, (containerWidth + gutter + minColWidth + gutter - 1)
              \div (minColWidth + gutter))

ColumnCount(containerWidth, gutter, minColWidth) ==
    Max(1, (containerWidth + gutter) \div (minColWidth + gutter))

ColWidth(containerWidth, gutter, cols) ==
    Frac(containerWidth - (cols - 1) * gutter, cols)

(***************************************************************************)
(* Placement Algorithm, generator engine (calculateLayout).                *)
(***************************************************************************)
\* mutant: <= instead of <, so ties go to the highest column index
RECURSIVE minColScanTiesLast(_, _, _, _)
minColScanTiesLast(ch, c, minCol, cols) ==
    IF c >= cols THEN minCol
    ELSE minColScanTiesLast(ch, c + 1,
                            IF ch[c + 1] <= ch[minCol + 1] THEN c ELSE minCol, cols)

\* mutant: > instead of <, so the tallest column is kept
RECURSIVE minColScanTallest(_, _, _, _)
minColScanTallest(ch, c, minCol, cols) ==
    IF c >= cols THEN minCol
    ELSE minColScanTallest(ch, c + 1,
                           IF ch[c + 1] > ch[minCol + 1] THEN c ELSE minCol, cols)

\* lines 124-129: scan columns 1..columns-1, keep the first strict minimum
RECURSIVE minColScan(_, _, _, _)
minColScan(ch, c, minCol, cols) ==
    IF c >= cols THEN minCol
    ELSE minColScan(ch, c + 1, IF ch[c + 1] < ch[minCol + 1] THEN c ELSE minCol, cols)

\* lines 121-136: the forEach over items; hs[i] is items[i].offsetHeight
\* mutant: the accumulator grows by the item's height only
RECURSIVE placeLoopNoGutter(_, _, _, _, _, _, _)
placeLoopNoGutter(hs, i, ch, pos, cols, colWidth, gutter) ==
    IF i > Len(hs) THEN [positions |-> pos, columnHeights |-> ch]
    ELSE LET height == hs[i]
             minCol == minColScan(ch, 1, 0, cols)
             x == FracMulInt(FracAddInt(colWidth, gutter), minCol)
             y == ch[minCol + 1]
         IN placeLoopNoGutter(hs, i + 1,
                      [ch EXCEPT ![minCol + 1] = @ + height],
                      Append(pos, [x |-> x, y |-> y, width |-> colWidth, height |-> height]),
                      cols, colWidth, gutter)

RECURSIVE placeLoop(_, _, _, _, _, _, _)
placeLoop(hs, i, ch, pos, cols, colWidth, gutter) ==
    IF i > Len(hs) THEN [positions |-> pos, columnHeights |-> ch]
    ELSE LET height == hs[i]
             minCol == minColScan(ch, 1, 0, cols)
             x == FracMulInt(FracAddInt(colWidth, gutter), minCol)
             y == ch[minCol + 1]
         IN placeLoop(hs, i + 1,
                      [ch EXCEPT ![minCol + 1] = @ + height + gutter],
                      Append(pos, [x |-> x, y |-> y, width |-> colWidth, height |-> height]),
                      cols, colWidth, gutter)

\* mutant: the accumulators are not reset, the loop goes on from what the
\* last pass left
calculateLayoutRNoReset(containerWidth, hs, prevPositions, gutter, minColWidth) ==
    LET cols == ColumnCount(containerWidth, gutter, minColWidth)
        colWidth == ColWidth(containerWidth, gutter, cols)
        start == IF Len(columnHeights) = cols THEN columnHeights
                 ELSE [c \in 1..cols |-> 0]
        placed == placeLoop(hs, 1, start, <<>>, cols, colWidth, gutter)
    IN [columns |-> cols,
        lastPositions |-> prevPositions,
        columnHeights |-> placed.columnHeights,
        positions |-> placed.positions,
        height |-> SeqMax(placed.columnHeights)]

\* mutant: the accumulator array is allocated one entry too long
calculateLayoutROffByOne(containerWidth, hs, prevPositions, gutter, minColWidth) ==
    LET cols == ColumnCount(containerWidth, gutter, minColWidth)
        colWidth == ColWidth(containerWidth, gutter, cols)
        placed == placeLoop(hs, 1, [c \in 1..(cols + 1) |-> 0], <<>>, cols, colWidth, gutter)
    IN [columns |-> cols,
        lastPositions |-> prevPositions,
        columnHeights |-> placed.columnHeights,
        positions |-> placed.positions,
        height |-> SeqMax(placed.columnHeights)]

\* calculateLayout as a function of what it reads
calculateLayoutR(containerWidth, hs, prevPositions, gutter, minColWidth) ==
    LET cols == ColumnCount(containerWidth, gutter, minColWidth)
        colWidth == ColWidth(containerWidth, gutter, cols)
        placed == placeLoop(hs, 1, [c \in 1..cols |-> 0], <<>>, cols, colWidth, gutter)
    IN [columns |-> cols,
        lastPositions |-> prevPositions,
        columnHeights |-> placed.columnHeights,
        positions |-> placed.positions,
        height |-> SeqMax(placed.columnHeights)]

\* applyLayout(animate): inline style of every item
applyLayoutR(its, pos, lastPos, st, animate) ==
    LET styleOf(i) ==
            LET p == IF i <= Len(pos) THEN pos[i]
                     ELSE [x |-> FracZero, y |-> 0, width |-> FracZero]
                l == IF i <= Len(lastPos) THEN [x |-> lastPos[i].x, y |-> lastPos[i].y]
                     ELSE [x |-> FracZero, y |-> 0]
            IN [width |-> p.width, x |-> p.x, y |-> p.y,
                transition |-> IF animate THEN "transform" ELSE "none",
                startX |-> IF animate THEN l.x ELSE p.x,
                startY |-> IF animate THEN l.y ELSE p.y]
        idx(h) == CHOOSE i \in DOMAIN its : its[i] = h /\ \A j \in DOMAIN its : its[j] = h => j <= i
    IN [h \in (DOMAIN st) \cup Range(its) |->
            IF h \in Range(its) THEN styleOf(idx(h)) ELSE st[h]]

(***************************************************************************)
(* Item Registry, generator engine.                                        *)
(***************************************************************************)
\* the k smallest handles not in `used`
RECURSIVE FreshHandles(_, _, _)
FreshHandles(used, k, from) ==
    IF k <= 0 THEN <<>>
    ELSE IF from \in used THEN FreshHandles(used, k, from + 1)
    ELSE <<from>> \o FreshHandles(used, k - 1, from + 1)

\* mutant: the handles cut from the registry stay in the container
generateItemsRKeepsRemoved(its, kids, ct, st, count, newHeights) ==
    IF count < Len(its)
    THEN [items |-> SubSeq(its, 1, count),
          children |-> kids,
          content |-> ct,
          itemStyle |-> st]
    ELSE LET made == FreshHandles(Range(its) \cup Range(kids), count - Len(its), 1)
         IN [items |-> its \o made,
             children |-> kids \o made,
             content |-> [h \in (DOMAIN ct) \cup Range(made) |->
                            IF h \in Range(made)
                            THEN newHeights[CHOOSE i \in DOMAIN made : made[i] = h]
                            ELSE ct[h]],
             itemStyle |-> st]

\* generateItems(count); newHeights are the heights createItem draws
generateItemsR(its, kids, ct, st, count, newHeights) ==
    IF count < Len(its)
    THEN LET gone == {its[i] : i \in (count + 1)..Len(its)}
         IN [items |-> SubSeq(its, 1, count),
             children |-> SeqWithout(kids, gone),
             content |-> MapKeep(ct, (DOMAIN ct) \ gone),
             itemStyle |-> MapKeep(st, (DOMAIN st) \ gone)]
    ELSE LET made == FreshHandles(Range(its) \cup Range(kids), count - Len(its), 1)
         IN [items |-> its \o made,
             children |-> kids \o made,
             content |-> [h \in (DOMAIN ct) \cup Range(made) |->
                            IF h \in Range(made)
                            THEN newHeights[CHOOSE i \in DOMAIN made : made[i] = h]
                            ELSE ct[h]],
             itemStyle |-> st]

\* mutant: items[i] = items[j] without the exchange
swapOverwrite(s, a, b) == [s EXCEPT ![a] = s[b]]

\* lines 177-180: Fisher-Yates; every draw of j in 0..i is possible
swap(s, a, b) == [s EXCEPT ![a] = s[b], ![b] = s[a]]

RECURSIVE shuffleLoop(_, _)
shuffleLoop(s, i) ==
    IF i <= 0 THEN {s}
    ELSE UNION {shuffleLoop(swap(s, i + 1, j + 1), i - 1) : j \in 0..i}

shuffleOutcomes(its) == shuffleLoop(its, Len(its) - 1)

(***************************************************************************)
(* Pooled engine (part_002): measurement, placement, container height.     *)
(***************************************************************************)
\* findShortestColumn: forEach with minHeight = Infinity, strict <
RECURSIVE findShortestScan(_, _, _, _)
findShortestScan(ch, index, minIndex, minHeight) ==
    IF index >= Len(ch) THEN minIndex
    ELSE IF minHeight = -1 \/ ch[index + 1] < minHeight
         THEN findShortestScan(ch, index + 1, index, ch[index + 1])
         ELSE findShortestScan(ch, index + 1, minIndex, minHeight)

\* minHeight -1 stands for Infinity (accumulators are never negative)
findShortestColumn(ch) == findShortestScan(ch, 0, 0, -1)

\* inline display/visibility/position of an element nothing has styled
Unstyled == [display |-> "", visibility |-> "", position |-> ""]

\* the styles measureItems forces while it reads offsetHeight
Forced == [display |-> "block", visibility |-> "hidden", position |-> "absolute"]

\* no measureItems call has been made by the latest updateLayout
NotMeasured == [ran |-> FALSE]

\* mutant: Object.assign(item.style, originalStyles) is left out
RECURSIVE measureLoopNoRestore(_, _, _, _, _, _, _, _, _)
measureLoopNoRestore(conn, kids, ct, its, i, st, inl, colWidth, heights) ==
    IF i > Len(its)
    THEN [heights |-> heights, itemStyle |-> st, itemInline |-> inl]
    ELSE LET item == its[i]
             forcedStyle == MapPut(st, item, [st[item] EXCEPT !.width = colWidth])
             forcedInline == MapPut(inl, item, Forced)
             height == offsetHeightOf(conn, kids, ct, item)
         IN measureLoopNoRestore(conn, kids, ct, its, i + 1, forcedStyle, forcedInline,
                                 colWidth, Append(heights, height))

\* measureItems, the map over items: save the four styles, force them, read
\* offsetHeight, Object.assign the saved styles back
RECURSIVE measureLoop(_, _, _, _, _, _, _, _, _)
measureLoop(conn, kids, ct, its, i, st, inl, colWidth, heights) ==
    IF i > Len(its)
    THEN [heights |-> heights, itemStyle |-> st, itemInline |-> inl]
    ELSE LET item == its[i]
             originalStyles ==
                 [display |-> inl[item].display,
                  visibility |-> inl[item].visibility,
                  position |-> inl[item].position,
                  width |-> st[item].width]
             forcedStyle == MapPut(st, item, [st[item] EXCEPT !.width = colWidth])
             forcedInline == MapPut(inl, item, Forced)
             height == offsetHeightOf(conn, kids, ct, item)
             restoredStyle ==
                 MapPut(forcedStyle, item,
                        [forcedStyle[item] EXCEPT !.width = originalStyles.width])
             restoredInline ==
                 MapPut(forcedInline, item,
                        [display |-> originalStyles.display,
                         visibility |-> originalStyles.visibility,
                         position |-> originalStyles.position])
         IN measureLoop(conn, kids, ct, its, i + 1, restoredStyle, restoredInline,
                        colWidth, Append(heights, height))

\* mutant: the new offset is added to the offset the element already has
RECURSIVE positionLoopRelative(_, _, _, _, _, _, _, _)
positionLoopRelative(its, itemHeights, index, ch, st, colWidth, gutter, animate) ==
    IF index > Len(its) THEN [columnHeights |-> ch, itemStyle |-> st]
    ELSE LET h == its[index]
             height == itemHeights[index]
             minCol == findShortestColumn(ch)
             x == FracMulInt(FracAddInt(colWidth, gutter), minCol)
             y == ch[minCol + 1] + (IF h \in DOMAIN st THEN st[h].y ELSE 0)
         IN positionLoopRelative(its, itemHeights, index + 1,
                [ch EXCEPT ![minCol + 1] = @ + height + gutter],
                MapPut(st, h, [width |-> colWidth, x |-> x, y |-> y,
                               transition |-> IF animate THEN "transform" ELSE "none",
                               startX |-> x, startY |-> y]),
                colWidth, gutter, animate)

\* mutant: the timed transition covers every property ('all ...ms ease')
RECURSIVE positionLoopTransitionAll(_, _, _, _, _, _, _, _)
positionLoopTransitionAll(its, itemHeights, index, ch, st, colWidth, gutter, animate) ==
    IF index > Len(its) THEN [columnHeights |-> ch, itemStyle |-> st]
    ELSE LET h == its[index]
             height == itemHeights[index]
             minCol == findShortestColumn(ch)
             x == FracMulInt(FracAddInt(colWidth, gutter), minCol)
             y == ch[minCol + 1]
         IN positionLoopTransitionAll(its, itemHeights, index + 1,
                [ch EXCEPT ![minCol + 1] = @ + height + gutter],
                MapPut(st, h, [width |-> colWidth, x |-> x, y |-> y,
                               transition |-> IF animate THEN "all" ELSE "none",
                               startX |-> x, startY |-> y]),
                colWidth, gutter, animate)

\* positionItems: the forEach over items
RECURSIVE positionLoop(_, _, _, _, _, _, _, _)
positionLoop(its, itemHeights, index, ch, st, colWidth, gutter, animate) ==
    IF index > Len(its) THEN [columnHeights |-> ch, itemStyle |-> st]
    ELSE LET h == its[index]
             height == itemHeights[index]
             minCol == findShortestColumn(ch)
             x == FracMulInt(FracAddInt(colWidth, gutter), minCol)
             y == ch[minCol + 1]
         IN positionLoop(its, itemHeights, index + 1,
                [ch EXCEPT ![minCol + 1] = @ + height + gutter],
                MapPut(st, h, [width |-> colWidth, x |-> x, y |-> y,
                               transition |-> IF animate THEN "transform" ELSE "none",
                               startX |-> x, startY |-> y]),
                colWidth, gutter, animate)

\* mutant: the gutter is subtracted without the maxHeight > 0 test
setContainerHeightNoGuard(ch, gutter) == Max(0, SeqMax(ch)) - gutter

\* setContainerHeight: tallest column minus the trailing gutter
setContainerHeight(ch, gutter) ==
    LET maxHeight == Max(0, SeqMax(ch))
    IN IF maxHeight > 0 THEN maxHeight - gutter ELSE 0

\* new Array(columns) raises RangeError when the quotient
\* (containerWidth + gutter) / (minColWidth + gutter) is Infinity or NaN
columnCountRaises(gutter, minColWidth) == minColWidth + gutter = 0

\* inline style of an element nothing has styled yet (width <<0, 0>>: unset)
NoStyle ==
    [width |-> <<0, 0>>, x |-> FracZero, y |-> 0, transition |-> "unset",
     startX |-> FracZero, startY |-> 0]

\* mutant: `top` is not advanced, every item lands at the top
RECURSIVE fallbackLoopNoAdvance(_, _, _, _, _, _, _, _)
fallbackLoopNoAdvance(its, conn, kids, ct, index, top, st, gutter) ==
    IF index > Len(its) THEN [top |-> top, itemStyle |-> st]
    ELSE LET h == its[index]
             old == IF h \in DOMAIN st THEN st[h] ELSE NoStyle
         IN fallbackLoopNoAdvance(its, conn, kids, ct, index + 1, top,
                MapPut(st, h, [old EXCEPT !.x = FracZero, !.y = top,
                                          !.startX = FracZero, !.startY = top]),
                gutter)

\* applyFallbackLayout, the forEach: transform = translate3d(0, top, 0),
\* then top += item.offsetHeight + gutter; width and transition are kept
RECURSIVE fallbackLoop(_, _, _, _, _, _, _, _)
fallbackLoop(its, conn, kids, ct, index, top, st, gutter) ==
    IF index > Len(its) THEN [top |-> top, itemStyle |-> st]
    ELSE LET h == its[index]
             old == IF h \in DOMAIN st THEN st[h] ELSE NoStyle
         IN fallbackLoop(its, conn, kids, ct, index + 1,
                top + offsetHeightOf(conn, kids, ct, h) + gutter,
                MapPut(st, h, [old EXCEPT !.x = FracZero, !.y = top,
                                          !.startX = FracZero, !.startY = top]),
                gutter)

\* applyFallbackLayout: stack the items, container height = top - gutter
applyFallbackLayout(its, conn, kids, ct, st, cs, gutter) ==
    LET fb == fallbackLoop(its, conn, kids, ct, 1, 0, st, gutter)
    IN [cStyle |-> SetProp(cs, "height", fb.top - gutter),
        itemStyle |-> fb.itemStyle]

\* the inline styles of the items as the style objects report them
stylesOf(its, st, inl) ==
    [h \in Range(its) |->
        [style |-> IF h \in DOMAIN st THEN st[h] ELSE NoStyle,
         inline |-> IF h \in DOMAIN inl THEN inl[h] ELSE Unstyled]]

\* measureItems(colWidth): the heights, and the styles it leaves behind
measureItems(conn, kids, ct, its, st, inl, colWidth) ==
    measureLoop(conn, kids, ct, its, 1,
                [h \in (DOMAIN st) \cup Range(its) |->
                    IF h \in DOMAIN st THEN st[h] ELSE NoStyle],
                [h \in (DOMAIN inl) \cup Range(its) |->
                    IF h \in DOMAIN inl THEN inl[h] ELSE Unstyled],
                colWidth, <<>>)

\* updateLayout as a function of what it reads; `ran` tells whether a
\* placement pass was carried out; the RangeError of line 157 is caught and
\* answered by applyFallbackLayout, this.columnHeights staying as it was
updateLayoutR(destroyed, conn, w, opts, its, kids, ct, ch, cs, st, inl) ==
    LET containerWidth == clientWidthOf(conn, w)
        same == [columnHeights |-> ch, cStyle |-> cs, itemStyle |-> st, ran |-> FALSE,
                 itemInline |-> inl, measured |-> NotMeasured]
    IN IF destroyed \/ ~conn THEN same
       ELSE IF containerWidth <= 0
       THEN [same EXCEPT !.cStyle = SetProp(cs, "height", 0)]
       ELSE IF columnCountRaises(opts.gutter, opts.minColWidth)
       THEN LET fb == applyFallbackLayout(its, conn, kids, ct, st, cs, opts.gutter)
            IN [same EXCEPT !.cStyle = fb.cStyle, !.itemStyle = fb.itemStyle]
       ELSE LET cols == ColumnCount(containerWidth, opts.gutter, opts.minColWidth)
                colWidth == ColWidth(containerWidth, opts.gutter, cols)
                measured == measureItems(conn, kids, ct, its, st, inl, colWidth)
                itemHeights == measured.heights
                placed == positionLoop(its, itemHeights, 1, [c \in 1..cols |-> 0],
                                       MapKeep(measured.itemStyle, DOMAIN st),
                                       colWidth, opts.gutter, opts.animate)
            IN [columnHeights |-> placed.columnHeights,
                cStyle |-> SetProp(cs, "height",
                                   setContainerHeight(placed.columnHeights, opts.gutter)),
                itemStyle |-> placed.itemStyle,
                ran |-> TRUE,
                itemInline |-> measured.itemInline,
                measured |-> [ran |-> TRUE, colWidth |-> colWidth,
                              heights |-> itemHeights,
                              before |-> stylesOf(its, st, inl),
                              after |-> stylesOf(its, measured.itemStyle,
                                                 measured.itemInline)]]

\* mutant: a reused pool element keeps the content it had
renderItemsStale(its, pool, kids, ct, st, data) ==
    LET n == Len(data)
        kept == SubSeq(pool, 1, IF n < Len(pool) THEN n ELSE Len(pool))
        made == FreshHandles(Range(pool) \cup Range(kids), n - Len(kept), 1)
        newItems == kept \o made
        orphans == {its[i] : i \in DOMAIN its} \ {pool[i] : i \in (DOMAIN pool) \cap (1..n)}
        trimmed == {pool[i] : i \in (DOMAIN pool) \ (1..n)}
        gone == orphans \cup trimmed
        live == ((DOMAIN ct) \ gone) \cup Range(newItems)
    IN [items |-> newItems,
        itemPool |-> newItems,
        children |-> SeqWithout(kids, gone \cup Range(newItems)) \o newItems,
        content |-> [h \in live |-> IF h \in Range(made)
                                    THEN data[CHOOSE i \in DOMAIN newItems : newItems[i] = h]
                                    ELSE ct[h]],
        itemStyle |-> MapKeep(st, live)]

\* renderItems up to (not including) its final updateLayout call
renderItemsR(its, pool, kids, ct, st, data) ==
    LET n == Len(data)
        kept == SubSeq(pool, 1, IF n < Len(pool) THEN n ELSE Len(pool))
        made == FreshHandles(Range(pool) \cup Range(kids), n - Len(kept), 1)
        newItems == kept \o made
        orphans == {its[i] : i \in DOMAIN its} \ {pool[i] : i \in (DOMAIN pool) \cap (1..n)}
        trimmed == {pool[i] : i \in (DOMAIN pool) \ (1..n)}
        gone == orphans \cup trimmed
        live == ((DOMAIN ct) \ gone) \cup Range(newItems)
    IN [items |-> newItems,
        itemPool |-> newItems,
        children |-> SeqWithout(kids, gone \cup Range(newItems)) \o newItems,
        content |-> [h \in live |-> IF h \in Range(newItems)
                                    THEN data[CHOOSE i \in DOMAIN newItems : newItems[i] = h]
                                    ELSE ct[h]],
        itemStyle |-> MapKeep(st, live)]

(***************************************************************************)
(* Configuration Resolver.                                                 *)
(***************************************************************************)
ContainerClass == "masonry-snap-grid-container"
ItemClass == "masonry-snap-grid-item"

\* { ...defaults, ...supplied }: a supplied field replaces the default whole
Spread(defaults, supplied) ==
    [f \in (DOMAIN defaults) \cup (DOMAIN supplied) |->
        IF f \in DOMAIN supplied THEN supplied[f] ELSE defaults[f]]

\* default class names of the generator engine, lines 20-31
GeneratorClassNames ==
    [container |-> ContainerClass,
     item |-> ItemClass,
     itemContent |-> "masonry-snap-grid-item-content",
     itemHeader |-> "masonry-snap-grid-item-header",
     itemTitle |-> "masonry-snap-grid-item-title",
     itemId |-> "masonry-snap-grid-item-id",
     itemBody |-> "masonry-snap-grid-item-body",
     progressBar |-> "masonry-snap-grid-progress-bar",
     progress |-> "masonry-snap-grid-progress",
     itemFooter |-> "masonry-snap-grid-item-footer"]

\* default class names of the pooled engine, part_002 lines 35-38
PooledClassNames == [container |-> ContainerClass, item |-> ItemClass]

\* this.classNames of the generator engine: defaults, then options.classNames || {}
mergedClassNames(opts) ==
    Spread(GeneratorClassNames,
           IF "classNames" \in DOMAIN opts THEN opts.classNames ELSE EmptyMap)

\* this.options as the constructor resolves it from the caller's options
resolveOptions(v, supplied) ==
    IF v = "generator"
    THEN Spread([gutter |-> 16, minColWidth |-> 250, animate |-> TRUE,
                 transitionDuration |-> 400, initialItems |-> 0,
                 itemContent |-> "null",
                 classNames |-> mergedClassNames(supplied)], supplied)
    ELSE Spread([gutter |-> 16, minColWidth |-> 250, animate |-> TRUE,
                 transitionDuration |-> 400,
                 classNames |-> PooledClassNames], supplied)

(***************************************************************************)
(* Inputs.                                                                 *)
(***************************************************************************)

\* heights createItem draws (the code draws 120 + floor(random * 100))
GenHeights == {1, 2}
\* heights a rendered datum can have in the lifecycle specifications
DataHeights == {1, 2}

SeqsUpTo(S, n) == UNION {[1..k -> S] : k \in 0..n}

\* container widths of the lifecycle specifications: hidden, one column, two
Widths == {0, 2, 5}

\* what the container looks like before construct
Pristine == [class |-> {}, style |-> EmptyStyle]

Opts(g, m, a, n, data) ==
    [gutter |-> g, minColWidth |-> m, animate |-> a, initialItems |-> n, items |-> data]

Styled == [class |-> {"gallery", ContainerClass},
           style |-> SetProp(EmptyStyle, "position", 1)]

\* the instances the lifecycle specifications construct
Scenarios ==
    { [variant |-> "generator", options |-> Opts(1, 2, TRUE, 1, <<>>), pre |-> Pristine],
      [variant |-> "generator", options |-> Opts(1, 2, FALSE, 2, <<>>), pre |-> Styled],
      [variant |-> "pooled", options |-> Opts(1, 2, TRUE, 0, <<1, 2>>), pre |-> Styled],
      [variant |-> "pooled", options |-> Opts(1, 2, FALSE, 0, <<1, 2>>), pre |-> Pristine] }

InitState(v, c, o, w, conn, p) ==
    /\ variant = v
    /\ container = c
    /\ phase = "uninit"
    /\ options = o
    /\ width = w
    /\ isConnected = conn
    /\ classList = p.class
    /\ cStyle = p.style
    /\ preClass = p.class
    /\ preStyle = p.style
    /\ children = <<>>
    /\ content = EmptyMap
    /\ itemStyle = EmptyMap
    /\ items = <<>>
    /\ positions = <<>>
    /\ lastPositions = <<>>
    /\ columnHeights = <<>>
    /\ columns = 0
    /\ resizeRaf = 0
    /\ rafId = 0
    /\ observing = FALSE
    /\ windowListener = FALSE
    /\ lastContainerWidth = 0
    /\ itemPool = <<>>
    /\ isDestroyed = FALSE
    /\ frames = {}
    /\ roPending = FALSE
    /\ winPending = FALSE
    /\ burst = 0
    /\ last = [op |-> "none"]
    /\ itemInline = EmptyMap
    /\ measure = NotMeasured
    /\ react = Unmounted
    /\ chain = EmptyMap
    /\ wait = EmptyMap
    /\ calls = {}

\* an instance about to be constructed on an existing container
InitWith(v, o, w, conn, p) == InitState(v, "element", o, w, conn, p)

Init ==
    \E sc \in Scenarios, w \in Widths :
        InitWith(sc.variant, sc.options, w, TRUE, sc.pre)

(***************************************************************************)
(* Event loop primitives.                                                  *)
(***************************************************************************)
\* requestAnimationFrame returns a handle that no scheduled callback has
newFrameHandle(pending) ==
    CHOOSE n \in 1..(Cardinality(pending) + 1) :
        /\ n \notin pending
        /\ \A k \in 1..(n - 1) : k \in pending

\* mutant: the stored frame is not cancelled before the next is requested
rescheduledNoCancel(pending, stored) ==
    [frames |-> pending \cup {newFrameHandle(pending)},
     handle |-> newFrameHandle(pending)]

\* if (stored) cancelAnimationFrame(stored); stored = requestAnimationFrame(cb)
rescheduled(pending, stored) ==
    [frames |-> (pending \ {stored}) \cup {newFrameHandle(pending \ {stored})},
     handle |-> newFrameHandle(pending \ {stored})]

\* what no step of either engine writes
static == <<variant, container, preClass, preStyle, wrapper>>
pooledOnly == <<rafId, lastContainerWidth, itemPool, isDestroyed>>
subscriptions == <<observing, windowListener>>

(***************************************************************************)
(* Generator engine: src/src/MasonrySnapGridLayout.ts                      *)
(***************************************************************************)
offsetHeights(conn, kids, ct, its) ==
    [i \in DOMAIN its |-> offsetHeightOf(conn, kids, ct, its[i])]

\* calculateLayout() on the instance, given its items and the DOM
calculateLayoutOn(its, kids, ct) ==
    calculateLayoutR(clientWidth, offsetHeights(isConnected, kids, ct, its),
                     positions, options.gutter, options.minColWidth)

\* the fields calculateLayout() writes
setLayout(lay) ==
    /\ positions' = lay.positions
    /\ lastPositions' = lay.lastPositions
    /\ columnHeights' = lay.columnHeights
    /\ columns' = lay.columns
    /\ cStyle' = SetProp(cStyle, "height", lay.height)

\* constructor + init: class, listeners, generateItems, layout, applyLayout(false)
construct ==
    /\ variant = "generator"
    /\ container = "element"
    /\ phase = "uninit"
    /\ \E o \in {resolveOptions(variant, options)} :
       \E hs \in [1..o.initialItems -> GenHeights] :
       \E gen \in {generateItemsR(items, children, content, itemStyle,
                                  o.initialItems, hs)} :
       \E lay \in {calculateLayoutR(clientWidth,
                        offsetHeights(isConnected, gen.children, gen.content, gen.items),
                        positions, o.gutter, o.minColWidth)} :
         /\ options' = o
         /\ classList' = classList \cup {mergedClassNames(options).container}
         /\ last' = [op |-> "construct", supplied |-> options]
         /\ items' = gen.items
         /\ children' = gen.children
         /\ content' = gen.content
         /\ setLayout(lay)
         /\ itemStyle' = applyLayoutR(gen.items, lay.positions, lay.lastPositions,
                                      gen.itemStyle, FALSE)
    /\ observing' = TRUE
    /\ windowListener' = TRUE
    /\ phase' = "active"
    /\ UNCHANGED <<static, measurement, width, isConnected, resizeRaf, pooledOnly, loop, burst>>

\* public generateItems(count): no layout pass follows
generateItems(count) ==
    /\ variant = "generator"
    /\ phase \in {"active", "destroyed"}
    /\ \E hs \in [1..(count - Len(items)) -> GenHeights] :
       \E gen \in {generateItemsR(items, children, content, itemStyle, count, hs)} :
         /\ items' = gen.items
         /\ children' = gen.children
         /\ content' = gen.content
         /\ itemStyle' = gen.itemStyle
    /\ last' = [op |-> "generateItems", count |-> count, n |-> Len(items)]
    /\ UNCHANGED <<static, measurement, phase, options, width, isConnected, classList, cStyle,
                   positions, lastPositions, columnHeights, columns, resizeRaf,
                   subscriptions, pooledOnly, loop, burst>>

\* public calculateLayout()
calculateLayout ==
    /\ variant = "generator"
    /\ phase \in {"active", "destroyed"}
    /\ \E lay \in {calculateLayoutOn(items, children, content)} : setLayout(lay)
    /\ last' = [op |-> "calculateLayout"]
    /\ UNCHANGED <<static, measurement, phase, options, width, isConnected, classList, children,
                   content, itemStyle, items, resizeRaf, subscriptions, pooledOnly,
                   loop, burst>>

\* public applyLayout(animate)
applyLayout(animate) ==
    /\ variant = "generator"
    /\ phase \in {"active", "destroyed"}
    /\ itemStyle' = applyLayoutR(items, positions, lastPositions, itemStyle, animate)
    /\ last' = [op |-> "applyLayout", animate |-> animate]
    /\ UNCHANGED <<static, measurement, phase, options, width, isConnected, classList, cStyle,
                   children, content, items, positions, lastPositions, columnHeights,
                   columns, resizeRaf, subscriptions, pooledOnly, loop, burst>>

\* mutant: the count is taken as the new total
newCountAsTotal(n, count) == count

\* line 191: const newCount = this.items.length + count
newCount(n, count) == n + count

\* addItems(count): generateItems(newCount); calculateLayout(); applyLayout(true)
addItems(count) ==
    /\ variant = "generator"
    /\ phase \in {"active", "destroyed"}
    /\ \E hs \in [1..count -> GenHeights] :
       \E gen \in {generateItemsR(items, children, content, itemStyle,
                                  newCount(Len(items), count), hs)} :
       \E lay \in {calculateLayoutOn(gen.items, gen.children, gen.content)} :
         /\ items' = gen.items
         /\ children' = gen.children
         /\ content' = gen.content
         /\ setLayout(lay)
         /\ itemStyle' = applyLayoutR(gen.items, lay.positions, lay.lastPositions,
                                      gen.itemStyle, TRUE)
    /\ last' = [op |-> "addItems", count |-> count, n |-> Len(items)]
    /\ UNCHANGED <<static, measurement, phase, options, width, isConnected, classList, resizeRaf,
                   subscriptions, pooledOnly, loop, burst>>

\* shuffleItems(): Fisher-Yates, re-append in the new order, layout, animate
shuffleItems ==
    /\ variant = "generator"
    /\ phase \in {"active", "destroyed"}
    /\ \E shuffled \in shuffleOutcomes(items) :
       \E kids \in {SeqWithout(children, Range(shuffled)) \o shuffled} :
       \E lay \in {calculateLayoutOn(shuffled, kids, content)} :
         /\ items' = shuffled
         /\ children' = kids
         /\ setLayout(lay)
         /\ itemStyle' = applyLayoutR(shuffled, lay.positions, lay.lastPositions,
                                      itemStyle, TRUE)
    /\ last' = [op |-> "shuffleItems", before |-> items]
    /\ UNCHANGED <<static, measurement, phase, options, width, isConnected, classList, content,
                   resizeRaf, subscriptions, pooledOnly, loop, burst>>

\* handleResize(): cancel the stored frame, schedule a new one
handleResize ==
    \E r \in {rescheduled(frames, resizeRaf)} :
       /\ frames' = r.frames
       /\ resizeRaf' = r.handle

\* the frame callback of handleResize: calculateLayout(); applyLayout(true)
resizeFrame(id) ==
    /\ variant = "generator"
    /\ id \in frames
    /\ frames' = frames \ {id}
    /\ \E lay \in {calculateLayoutOn(items, children, content)} :
         /\ setLayout(lay)
         /\ itemStyle' = applyLayoutR(items, lay.positions, lay.lastPositions,
                                      itemStyle, TRUE)
    /\ burst' = 0
    /\ last' = [op |-> "frame", k |-> burst, relayouts |-> 1, cache |-> 0]
    /\ UNCHANGED <<static, measurement, phase, options, width, isConnected, classList, children,
                   content, items, resizeRaf, subscriptions, pooledOnly,
                   roPending, winPending>>

\* mutant: destroy leaves the scheduled frame alone
cancelPendingNone(pending, stored) == pending

\* lines 205-208: if (this.resizeRaf) cancelAnimationFrame(this.resizeRaf)
cancelPending(pending, stored) == pending \ {stored}

\* mutant: classList.toggle instead of classList.remove
removeContainerClassToggle(cl) ==
    IF mergedClassNames(options).container \in cl
    THEN cl \ {mergedClassNames(options).container}
    ELSE cl \cup {mergedClassNames(options).container}

\* line 212: container.classList.remove(classNames.container)
removeContainerClass(cl) == cl \ {mergedClassNames(options).container}

\* destroy()
destroy ==
    /\ variant = "generator"
    /\ phase \in {"active", "destroyed"}
    /\ observing' = FALSE
    /\ roPending' = FALSE
    /\ windowListener' = FALSE
    /\ winPending' = FALSE
    /\ frames' = cancelPending(frames, resizeRaf)
    /\ resizeRaf' = 0
    /\ children' = <<>>
    /\ content' = EmptyMap
    /\ itemStyle' = EmptyMap
    /\ cStyle' = EmptyStyle
    /\ classList' = removeContainerClass(classList)
    /\ items' = <<>>
    /\ positions' = <<>>
    /\ columnHeights' = <<>>
    /\ columns' = 0
    /\ lastPositions' = <<>>
    /\ phase' = "destroyed"
    /\ burst' = 0
    /\ last' = [op |-> "destroy", pending |-> frames # {}, again |-> last.op = "destroy"]
    /\ UNCHANGED <<static, measurement, options, width, isConnected, pooledOnly>>

(***************************************************************************)
(* Pooled engine: src/unnamed/part_002                                     *)
(***************************************************************************)
generatorOnly == <<positions, lastPositions, columns, resizeRaf, windowListener>>

\* renderItems(): pool the elements, render, append, then updateLayout()
renderItemsWith(opts, data) ==
    \E ren \in {renderItemsR(items, itemPool, children, content, itemStyle, data)} :
    \E lay \in {updateLayoutR(isDestroyed, isConnected, width, opts, ren.items,
                              ren.children, ren.content, <<>>, cStyle, ren.itemStyle,
                              [h \in DOMAIN ren.content |->
                                  IF h \in DOMAIN itemInline
                                  THEN itemInline[h] ELSE Unstyled])} :
       /\ itemInline' = lay.itemInline
       /\ measure' = lay.measured
       /\ items' = ren.items
       /\ itemPool' = ren.itemPool
       /\ children' = ren.children
       /\ content' = ren.content
       /\ columnHeights' = lay.columnHeights
       /\ cStyle' = lay.cStyle
       /\ itemStyle' = lay.itemStyle

\* classList.add(names[slot] || ''): the empty token raises SyntaxError
addClassRaises(names, slot) == slot \notin DOMAIN names

\* constructor + init: class, renderItems, setupResizeObserver; raises at
\* line 52 or line 83 when the resolved class name is missing
constructP ==
    /\ variant = "pooled"
    /\ container = "element"
    /\ phase = "uninit"
    /\ \E o \in {resolveOptions(variant, options)} :
         /\ options' = o
         /\ IF addClassRaises(o.classNames, "container")
            THEN /\ phase' = "failed"
                 /\ last' = [op |-> "construct", supplied |-> options,
                              threw |-> "SyntaxError"]
                 /\ UNCHANGED <<classList, items, itemPool, children, content,
                                columnHeights, cStyle, itemStyle, observing,
                                measurement>>
            ELSE IF addClassRaises(o.classNames, "item") /\ o.items # <<>>
            THEN /\ classList' = classList \cup {o.classNames.container}
                 /\ phase' = "failed"
                 /\ last' = [op |-> "construct", supplied |-> options,
                              threw |-> "SyntaxError"]
                 /\ UNCHANGED <<items, itemPool, children, content,
                                columnHeights, cStyle, itemStyle, observing,
                                measurement>>
            ELSE /\ classList' = classList \cup {o.classNames.container}
                 /\ renderItemsWith(o, o.items)
                 /\ observing' = TRUE
                 /\ phase' = "active"
                 /\ last' = [op |-> "construct", supplied |-> options]
    /\ UNCHANGED <<static, width, isConnected, generatorOnly, rafId,
                   lastContainerWidth, isDestroyed, loop, burst>>

\* updateItems(newItems)
updateItems(newItems) ==
    /\ variant = "pooled"
    /\ phase \in {"active", "destroyed"}
    /\ IF isDestroyed
       THEN UNCHANGED <<options, items, itemPool, children, content, columnHeights,
                        cStyle, itemStyle, measurement>>
       ELSE /\ options' = [options EXCEPT !.items = newItems]
            /\ renderItemsWith(options, newItems)
    /\ last' = [op |-> "updateItems", newItems |-> newItems,
                again |-> last.op = "updateItems" /\ last.newItems = newItems]
    /\ UNCHANGED <<static, phase, width, isConnected, classList, generatorOnly,
                   observing, rafId, lastContainerWidth, isDestroyed, loop, burst>>

\* the ResizeObserver callback: cancel the stored frame, schedule a new one
observerCallback ==
    \E r \in {rescheduled(frames, rafId)} :
       /\ frames' = r.frames
       /\ rafId' = r.handle

\* the frame callback: relayout only if the width differs from the cache
resizeFrameP(id) ==
    /\ variant = "pooled"
    /\ id \in frames
    /\ frames' = frames \ {id}
    /\ LET newWidth == clientWidth
       IN IF newWidth # lastContainerWidth
          THEN \E lay \in {updateLayoutR(isDestroyed, isConnected, width, options,
                                          items, children, content, columnHeights,
                                          cStyle, itemStyle, itemInline)} :
                  /\ itemInline' = lay.itemInline
                  /\ measure' = lay.measured
                  /\ lastContainerWidth' = newWidth
                  /\ columnHeights' = lay.columnHeights
                  /\ cStyle' = lay.cStyle
                  /\ itemStyle' = lay.itemStyle
                  /\ last' = [op |-> "frame", k |-> burst, relayouts |-> 1,
                               cache |-> lastContainerWidth]
          ELSE /\ UNCHANGED <<lastContainerWidth, columnHeights, cStyle, itemStyle,
                               measurement>>
               /\ last' = [op |-> "frame", k |-> burst, relayouts |-> 0,
                            cache |-> lastContainerWidth]
    /\ burst' = 0
    /\ UNCHANGED <<static, phase, options, width, isConnected, classList, children,
                   content, items, generatorOnly, observing, rafId, itemPool,
                   isDestroyed, roPending, winPending>>

\* destroy()
destroyP ==
    /\ variant = "pooled"
    /\ phase \in {"active", "destroyed"}
    /\ IF isDestroyed
       THEN UNCHANGED <<isDestroyed, observing, roPending, frames, rafId, children,
                        content, itemStyle, itemInline, cStyle, classList, items,
                        columnHeights, itemPool, phase, burst>>
       ELSE /\ isDestroyed' = TRUE
            /\ observing' = FALSE
            /\ roPending' = FALSE
            /\ frames' = frames \ {rafId}
            /\ rafId' = 0
            /\ children' = <<>>
            /\ content' = EmptyMap
            /\ itemStyle' = EmptyMap
            /\ itemInline' = EmptyMap
            /\ cStyle' = EmptyStyle
            /\ classList' = classList \ {options.classNames.container}
            /\ items' = <<>>
            /\ columnHeights' = <<>>
            /\ itemPool' = <<>>
            /\ phase' = "destroyed"
            /\ burst' = 0
    /\ last' = [op |-> "destroy", pending |-> frames # {}, again |-> last.op = "destroy"]
    /\ UNCHANGED <<static, measure, options, width, isConnected, generatorOnly,
                   lastContainerWidth, winPending>>

(***************************************************************************)
(* Construction on an absent container (both engines).                     *)
(***************************************************************************)
\* mutant: the window listener is attached before the container is touched
constructorStepsListenerFirst(v) ==
    IF v = "generator"
    THEN <<"resolve", "addEventListener", "classList.add", "observe",
           "generateItems", "calculateLayout", "applyLayout">>
    ELSE <<"resolve", "addEventListener", "guard", "classList.add",
           "renderItems", "observe">>

\* the constructor's statements in program order: generator lines 19-54
\* (setupEventListeners at 56-61), pooled part_002 lines 24-54
constructorSteps(v) ==
    IF v = "generator"
    THEN <<"resolve", "classList.add", "observe", "addEventListener",
           "generateItems", "calculateLayout", "applyLayout">>
    ELSE <<"guard", "resolve", "classList.add", "renderItems", "observe">>

\* statements that raise when the container is null: the pooled guard, and
\* every dereference of this.container
needsContainer ==
    {"guard", "classList.add", "observe", "generateItems", "renderItems",
     "calculateLayout"}

\* the statements completed before the first one that raises
RECURSIVE completedBefore(_, _)
completedBefore(steps, k) ==
    IF k > Len(steps) \/ steps[k] \in needsContainer THEN {}
    ELSE {steps[k]} \cup completedBefore(steps, k + 1)

\* new MasonrySnapGridLayout(null, options)
constructAbsent ==
    /\ container = "null"
    /\ phase = "uninit"
    /\ \E done \in {completedBefore(constructorSteps(variant), 1)} :
         /\ options' = IF "resolve" \in done
                       THEN resolveOptions(variant, options) ELSE options
         /\ windowListener' = ("addEventListener" \in done)
         /\ observing' = ("observe" \in done)
    /\ phase' = "failed"
    /\ last' = [op |-> "construct", supplied |-> options,
                 threw |-> IF variant = "pooled" THEN "Error" ELSE "TypeError"]
    /\ UNCHANGED <<static, measurement, dom, items, positions, lastPositions, columnHeights,
                   columns, resizeRaf, rafId, lastContainerWidth, itemPool,
                   isDestroyed, loop, burst>>

(***************************************************************************)
(* Environment: the page, the observer and the frame scheduler.            *)
(***************************************************************************)
envQuiet == <<static, measurement, phase, options, classList, cStyle, children, content, itemStyle,
              engine, frames, burst>>

\* the container gets a new content width
Resize(w) ==
    /\ phase \in {"active", "destroyed"}
    /\ w # width
    /\ width' = w
    /\ roPending' = observing
    /\ last' = [op |-> "env"]
    /\ UNCHANGED <<envQuiet, isConnected, winPending>>

\* the container's box changes without a width change (height, first observation)
Reflow ==
    /\ phase \in {"active", "destroyed"}
    /\ observing
    /\ ~roPending
    /\ roPending' = TRUE
    /\ last' = [op |-> "env"]
    /\ UNCHANGED <<envQuiet, width, isConnected, winPending>>

\* the container is removed from, or inserted into, the document
Reattach ==
    /\ phase \in {"active", "destroyed"}
    /\ isConnected' = ~isConnected
    /\ roPending' = observing
    /\ last' = [op |-> "env"]
    /\ UNCHANGED <<envQuiet, width, winPending>>

\* a page script takes an item element out of the document; the engine
\* keeps its handle
DetachItem(h) ==
    /\ phase = "active"
    /\ h \in Range(children)
    /\ children' = SeqWithout(children, {h})
    /\ last' = [op |-> "env"]
    /\ UNCHANGED <<static, measurement, phase, options, width, isConnected, classList, cStyle,
                   content, itemStyle, engine, loop, burst>>

\* inline display/visibility/position a page script may give an item
InlineStyles ==
    { Unstyled,
      [display |-> "none", visibility |-> "visible", position |-> "relative"] }

\* a page script sets inline display/visibility/position on an item element
StyleItem(h, v) ==
    /\ phase = "active"
    /\ h \in DOMAIN itemInline
    /\ itemInline[h] # v
    /\ itemInline' = [itemInline EXCEPT ![h] = v]
    /\ last' = [op |-> "env"]
    /\ UNCHANGED <<static, measure, phase, options, dom, engine, loop, burst>>

\* the window is resized
WindowResize ==
    /\ windowListener
    /\ ~winPending
    /\ winPending' = TRUE
    /\ last' = [op |-> "env"]
    /\ UNCHANGED <<envQuiet, width, isConnected, roPending>>

\* the observer delivers its notification
DeliverObserver ==
    /\ observing
    /\ roPending
    /\ burst < MaxBurst
    /\ roPending' = FALSE
    /\ IF variant = "generator"
       THEN handleResize /\ UNCHANGED rafId
       ELSE observerCallback /\ UNCHANGED resizeRaf
    /\ burst' = burst + 1
    /\ last' = [op |-> "notify"]
    /\ UNCHANGED <<static, measurement, phase, options, dom, items, positions, lastPositions,
                   columnHeights, columns, subscriptions, lastContainerWidth,
                   itemPool, isDestroyed, winPending>>

\* mutant: the window listener keeps a frame handle of its own
DeliverWindowOwnHandle ==
    /\ windowListener
    /\ winPending
    /\ burst < MaxBurst
    /\ winPending' = FALSE
    /\ \E r \in {rescheduled(frames, rafId)} :
         /\ frames' = r.frames
         /\ rafId' = r.handle
    /\ burst' = burst + 1
    /\ last' = [op |-> "notify"]
    /\ UNCHANGED <<static, measurement, phase, options, dom, items, positions, lastPositions,
                   columnHeights, columns, subscriptions, resizeRaf,
                   lastContainerWidth, itemPool, isDestroyed, roPending>>

\* the window 'resize' event reaches the listener
DeliverWindow ==
    /\ windowListener
    /\ winPending
    /\ burst < MaxBurst
    /\ winPending' = FALSE
    /\ handleResize
    /\ burst' = burst + 1
    /\ last' = [op |-> "notify"]
    /\ UNCHANGED <<static, measurement, phase, options, dom, items, positions, lastPositions,
                   columnHeights, columns, subscriptions, pooledOnly, roPending>>

(***************************************************************************)
(* Specification of the instance's lifecycle.                              *)
(***************************************************************************)
NewItemLists == SeqsUpTo(DataHeights, MaxItems)

\* public operations on an instance whose container is resized, hidden and
\* detached between the calls; observer notifications stay undelivered here
Next ==
    \/ construct
    \/ \E count \in 0..MaxItems : Len(items) + count <= MaxItems /\ addItems(count)
    \/ shuffleItems
    \/ destroy
    \/ constructP
    \/ \E newItems \in NewItemLists : updateItems(newItems)
    \/ destroyP
    \/ \E w \in Widths : Resize(w)
    \/ Reattach

Spec == Init /\ [][Next]_vars

(***************************************************************************)
(* Specification of the Resize Coordinator: the items stay as constructed  *)
(* (or as replaced by updateItems) while notifications and frames          *)
(* interleave with destroy.                                                *)
(***************************************************************************)
NextResize ==
    \/ construct
    \/ constructP
    \/ \E w \in Widths : Resize(w)
    \/ Reflow
    \/ Reattach
    \/ WindowResize
    \/ DeliverObserver
    \/ DeliverWindow
    \/ \E id \in frames : resizeFrame(id)
    \/ \E id \in frames : resizeFrameP(id)
    \/ \E newItems \in {<<>>, <<2, 1>>} : updateItems(newItems)
    \/ destroy
    \/ destroyP

SpecResize == Init /\ [][NextResize]_vars

(***************************************************************************)
(* Layout-only specification: an instance is constructed on a connected    *)
(* container for every planner input of a grid (and the documented         *)
(* scenarios), then laid out again at the same width.                      *)
(***************************************************************************)
ScenarioHeights == <<100, 150, 80, 200, 120>>

PlannerGrid ==
    [width : 0..MaxWide, gutter : 0..MaxGutter, minColWidth : 1..MaxMinCol]

PlannerScenarios ==
    { [width |-> 1000, gutter |-> 16, minColWidth |-> 250],
      [width |-> 530, gutter |-> 10, minColWidth |-> 250] }

LayoutHeights == 0..MaxHeight

InitLayout ==
    \/ \E in \in PlannerGrid \cup PlannerScenarios, n \in 0..MaxLayoutItems :
         InitWith("generator", Opts(in.gutter, in.minColWidth, TRUE, n, <<>>),
                  in.width, TRUE, Pristine)
    \/ \E in \in PlannerGrid, d \in SeqsUpTo(LayoutHeights, MaxLayoutItems) :
         InitWith("pooled", Opts(in.gutter, in.minColWidth, TRUE, 0, d),
                  in.width, TRUE, Pristine)
    \/ \E in \in PlannerScenarios :
         InitWith("pooled", Opts(in.gutter, in.minColWidth, TRUE, 0, ScenarioHeights),
                  in.width, TRUE, Pristine)

NextLayout ==
    \/ construct
    \/ constructP
    \/ calculateLayout
    \/ \E newItems \in {options.items} : updateItems(newItems)

SpecLayout == InitLayout /\ [][NextLayout]_vars

(***************************************************************************)
(* Configuration specification: an instance is constructed from every      *)
(* partial options object of a small family, on an element or on null.     *)
(***************************************************************************)
Restrict(f, D) == [k \in D |-> f[k]]

\* classNames objects a caller may pass: any subset of two custom slots
PartialClassNames ==
    {Restrict([container |-> "grid", item |-> "card"], D) :
        D \in SUBSET {"container", "item"}}

\* the optional fields a caller may pass, all given
AllOptional(v, cn) ==
    IF v = "generator"
    THEN [gutter |-> 1, minColWidth |-> 2, animate |-> FALSE,
          transitionDuration |-> 200, initialItems |-> 2, classNames |-> cn]
    ELSE [gutter |-> 1, minColWidth |-> 2, animate |-> FALSE,
          transitionDuration |-> 200, classNames |-> cn]

\* the fields the options type requires (pooled: items; renderItem is the
\* rendering that `content` records)
RequiredOptions(v) ==
    IF v = "generator" THEN EmptyMap ELSE [items |-> <<1, 2>>]

SuppliedOptions(v) ==
    {Spread(RequiredOptions(v), Restrict(AllOptional(v, cn), D)) :
        cn \in PartialClassNames,
        D \in SUBSET DOMAIN AllOptional(v, EmptyMap)}

ConfigWidths == {2, 5}

InitConfig ==
    \E v \in {"generator", "pooled"}, c \in {"element", "null"},
       w \in ConfigWidths :
    \E o \in SuppliedOptions(v) :
        InitState(v, c, o, w, TRUE, Pristine)

NextConfig ==
    \/ construct
    \/ constructP
    \/ constructAbsent

SpecConfig == InitConfig /\ [][NextConfig]_vars

(***************************************************************************)
(* Public-surface specification of the generator engine: every public      *)
(* method, called in any order, with observer-driven relayout frames in    *)
(* between, on a container wide enough for two columns.                    *)
(***************************************************************************)
InitPublic ==
    \E n \in {0, 1} :
        InitWith("generator", Opts(1, 2, TRUE, n, <<>>), 5, TRUE, Pristine)

NextPublic ==
    \/ construct
    \/ \E count \in 0..MaxItems : generateItems(count)
    \/ \E count \in 0..MaxItems : Len(items) + count <= MaxItems /\ addItems(count)
    \/ shuffleItems
    \/ calculateLayout
    \/ \E animate \in BOOLEAN : applyLayout(animate)
    \/ destroy
    \/ Reflow
    \/ DeliverObserver
    \/ \E id \in frames : resizeFrame(id)

SpecPublic == InitPublic /\ [][NextPublic]_vars

(***************************************************************************)
(* Measurement specification: item elements are taken out of the document  *)
(* between layout passes (public calculateLayout, resize frames).          *)
(***************************************************************************)
MeasureScenarios ==
    { [variant |-> "generator", options |-> Opts(1, 2, TRUE, 2, <<>>)],
      [variant |-> "pooled", options |-> Opts(1, 2, TRUE, 0, <<2, 1>>)],
      [variant |-> "pooled", options |-> Opts(0, 1, FALSE, 0, <<1, 2>>)] }

InitMeasure ==
    \E sc \in MeasureScenarios, w \in Widths :
        InitWith(sc.variant, sc.options, w, TRUE, Pristine)

NextMeasure ==
    \/ construct
    \/ constructP
    \/ \E h \in Range(children) : DetachItem(h)
    \/ \E w \in Widths : Resize(w)
    \/ DeliverObserver
    \/ \E id \in frames : resizeFrame(id)
    \/ \E id \in frames : resizeFrameP(id)
    \/ calculateLayout

SpecMeasure == InitMeasure /\ [][NextMeasure]_vars

(***************************************************************************)
(* Fallback specification: the pooled engine is constructed with options   *)
(* whose column count cannot be computed (minColWidth + gutter = 0), then  *)
(* its items are replaced and its container resized.                       *)
(***************************************************************************)
FallbackScenarios ==
    { Opts(0, 0, TRUE, 0, <<1, 2>>), Opts(1, -1, FALSE, 0, <<2, 1>>) }

InitFallback ==
    \E o \in FallbackScenarios, w \in Widths :
        InitWith("pooled", o, w, TRUE, Pristine)

NextFallback ==
    \/ constructP
    \/ \E newItems \in NewItemLists : updateItems(newItems)
    \/ \E w \in Widths : Resize(w)
    \/ DeliverObserver
    \/ \E id \in frames : resizeFrameP(id)

SpecFallback == InitFallback /\ [][NextFallback]_vars

(***************************************************************************)
(* Registry specification: the operations of both engines that add,       *)
(* remove or reorder item handles, in a visible container.                 *)
(***************************************************************************)
RegistryScenarios ==
    { [variant |-> "generator", options |-> Opts(1, 2, TRUE, 1, <<>>)],
      [variant |-> "generator", options |-> Opts(1, 2, FALSE, 2, <<>>)],
      [variant |-> "pooled", options |-> Opts(1, 2, TRUE, 0, <<2, 1>>)],
      [variant |-> "pooled", options |-> Opts(0, 1, FALSE, 0, <<>>)] }

InitRegistry ==
    \E sc \in RegistryScenarios :
        InitWith(sc.variant, sc.options, 5, TRUE, Pristine)

NextRegistry ==
    \/ construct
    \/ \E count \in 0..MaxItems : generateItems(count)
    \/ \E count \in 0..MaxItems : Len(items) + count <= MaxItems /\ addItems(count)
    \/ shuffleItems
    \/ constructP
    \/ \E newItems \in NewItemLists : updateItems(newItems)

SpecRegistry == InitRegistry /\ [][NextRegistry]_vars

(***************************************************************************)
(* The Measurement Stage of the pooled engine, on items a page script has  *)
(* styled, at container widths that change the column width.               *)
(***************************************************************************)
InlineScenarios == { Opts(1, 2, TRUE, 0, <<2, 1>>), Opts(0, 2, FALSE, 0, <<1>>) }

\* the lists updateItems is given
InlineItemLists == {<<>>, <<1>>}

InitInline ==
    \E o \in InlineScenarios, w \in Widths :
        InitWith("pooled", o, w, TRUE, Pristine)

NextInline ==
    \/ constructP
    \/ \E newItems \in InlineItemLists : updateItems(newItems)
    \/ \E h \in DOMAIN itemInline, v \in InlineStyles : StyleItem(h, v)
    \/ \E w \in Widths : Resize(w)
    \/ DeliverObserver
    \/ \E id \in frames : resizeFrameP(id)

SpecInline == InitInline /\ [][NextInline]_vars

(***************************************************************************)
(* React wrapper: src/src/react.tsx                                        *)
(*                                                                         *)
(* The wrapper owns one layout instance per run of its initialisation      *)
(* effect; an instance is named by the number of the run that created it   *)
(* (masonryRef = 0 is null).  Effect runs, frames, image events and        *)
(* timers are separate steps; the continuation of an awaited promise runs  *)
(* in the step that resolves it (a microtask).                             *)
(***************************************************************************)
\* what the wrapper's own steps leave alone
engineState == <<variant, container, phase, options, dom, pre, engine, loop, burst,
                 measurement>>

\* img.complete of each <img> found by querySelectorAll, in document order
ImageLists == SeqsUpTo({"complete", "loading"}, MaxImages)
ChainImageLists == SeqsUpTo({"complete", "loading"}, MaxChainImages)

\* mutant: resolve is called whether or not it was called before
finishUnguarded(w) == [w EXCEPT !.called = TRUE, !.resolves = @ + 1]

\* const finish = () => { if (called) return; called = true; resolve(); }
finish(w) ==
    IF w.called THEN w ELSE [w EXCEPT !.called = TRUE, !.resolves = @ + 1]

\* const onLoadOrError = () => { remaining -= 1; if (remaining <= 0) finish(); }
onLoadOrError(w) ==
    IF w.remaining - 1 <= 0
    THEN finish([w EXCEPT !.remaining = @ - 1])
    ELSE [w EXCEPT !.remaining = @ - 1]

\* images.forEach: a complete image counts at once, any other gets its
\* 'load' and 'error' listeners
RECURSIVE registerLoop(_, _, _)
registerLoop(images, i, w) ==
    IF i > Len(images) THEN w
    ELSE registerLoop(images, i + 1,
            IF images[i] = "complete"
            THEN onLoadOrError(w)
            ELSE [w EXCEPT !.listening = @ \cup {i}])

\* the promise returned by resolve() before anything is awaited
Resolved ==
    [remaining |-> 0, called |-> FALSE, resolves |-> 1, timer |-> FALSE,
     listening |-> {}]

\* waitForImages(el, timeout): the state of the promise when the executor
\* returns; timer = setTimeout(finish, timeout) is pending
waitForImagesR(el, images) ==
    IF el = "null" THEN Resolved
    ELSE IF Len(images) = 0 THEN Resolved
    ELSE [registerLoop(images, 1,
            [remaining |-> Len(images), called |-> FALSE, resolves |-> 0,
             timer |-> FALSE, listening |-> {}])
          EXCEPT !.timer = TRUE]

\* the init effect body of run g: isMountedRef.current = true, then the
\* constructor; when it throws, the catch returns before doInitialLayout
initEffect(r, g, ok) ==
    IF ok THEN [r EXCEPT !.isMounted = TRUE, !.runs = g, !.masonryRef = g]
    ELSE [r EXCEPT !.isMounted = TRUE, !.runs = g]

\* doInitialLayout() up to its first await: rafId = requestAnimationFrame(...)
chainStarted(ch, g, ok) ==
    IF ok THEN MapPut(ch, g, [at |-> "frame", cancelled |-> FALSE]) ELSE ch

\* the cleanup returned by the init effect of run g, when it returned one
initCleanup(r, ch, g) ==
    IF g \in DOMAIN ch
    THEN [r EXCEPT !.isMounted = FALSE, !.masonryRef = 0]
    ELSE r

\* cancelled = true; if (rafId) cancelAnimationFrame(rafId)
chainCleaned(ch, g) ==
    IF g \in DOMAIN ch
    THEN [ch EXCEPT ![g] = [at |-> IF @.at = "frame" THEN "dropped" ELSE @.at,
                            cancelled |-> TRUE]]
    ELSE ch

\* the items effect body: if (!masonryRef.current) return; rafId = rAF(...)
itemsEffect(r) ==
    IF r.masonryRef = 0 THEN r ELSE [r EXCEPT !.itemsFrame = r.masonryRef]

\* the cleanup returned by the items effect: cancelAnimationFrame(rafId)
itemsCleanup(r) == [r EXCEPT !.itemsFrame = 0]

\* masonryRef.current?.updateItems(items), called by a step that was
\* scheduled during run g; `cleaned` tells whether the cleanup of run g had
\* already run when the call was made
updateItemsCalled(r, by, g) ==
    IF r.masonryRef = 0 THEN calls
    ELSE calls \cup {[by |-> by, run |-> g, on |-> r.masonryRef,
                      cleaned |-> g \in DOMAIN chain /\ chain[g].cancelled]}

\* doInitialLayout after `await waitForImages(container, 1000)`
afterImages(ch, g) ==
    IF ch[g].cancelled \/ ~react.isMounted
    THEN [ch EXCEPT ![g].at = "returned"]
    ELSE [ch EXCEPT ![g].at = "updated"]

\* the promise of run g settles to w: its chain, if it awaits it, goes on
settled(g, w) ==
    /\ wait' = MapPut(wait, g, w)
    /\ IF g \in DOMAIN chain /\ chain[g].at = "images" /\ w.resolves > 0
       THEN /\ chain' = afterImages(chain, g)
            /\ calls' = IF chain[g].cancelled \/ ~react.isMounted
                        THEN calls
                        ELSE updateItemsCalled(react, "chain", g)
       ELSE UNCHANGED <<chain, calls>>

\* first commit: the init effect, then the items effect
Mount(ok) ==
    /\ ~react.mounted
    /\ react.runs = 0
    /\ wait = EmptyMap
    /\ react' = itemsEffect([initEffect(react, 1, ok) EXCEPT !.mounted = TRUE])
    /\ chain' = chainStarted(chain, 1, ok)
    /\ last' = [op |-> "Mount", ok |-> ok]
    /\ UNCHANGED <<engineState, wait, calls>>

\* a later commit: `options` is a fresh rest object on every render, so the
\* init effect is cleaned up and run again; the items effect only when the
\* items prop changed identity
Rerender(itemsChanged, ok) ==
    /\ react.mounted
    /\ react.runs < MaxInits
    /\ \E cleaned \in {initCleanup(react, chain, react.runs)} :
       \E swept \in {IF itemsChanged THEN itemsCleanup(cleaned) ELSE cleaned} :
       \E started \in {initEffect(swept, react.runs + 1, ok)} :
          react' = IF itemsChanged THEN itemsEffect(started) ELSE started
    /\ chain' = chainStarted(chainCleaned(chain, react.runs), react.runs + 1, ok)
    /\ last' = [op |-> "Rerender", itemsChanged |-> itemsChanged, ok |-> ok,
                pending |-> react.itemsFrame]
    /\ UNCHANGED <<engineState, wait, calls>>

\* unmount: every effect's cleanup runs
Unmount ==
    /\ react.mounted
    /\ react' = [itemsCleanup(initCleanup(react, chain, react.runs))
                 EXCEPT !.mounted = FALSE]
    /\ chain' = chainCleaned(chain, react.runs)
    /\ last' = [op |-> "Unmount"]
    /\ UNCHANGED <<engineState, wait, calls>>

\* the animation frame awaited by doInitialLayout of run g
chainFrame(g, images) ==
    /\ g \in DOMAIN chain
    /\ chain[g].at = "frame"
    /\ IF chain[g].cancelled \/ ~react.isMounted
       THEN /\ chain' = [chain EXCEPT ![g].at = "returned"]
            /\ UNCHANGED <<wait, calls>>
       ELSE \E w \in {waitForImagesR("element", images)} :
              /\ wait' = MapPut(wait, g, w)
              /\ IF w.resolves > 0
                 THEN /\ chain' = afterImages(chain, g)
                      /\ calls' = updateItemsCalled(react, "chain", g)
                 ELSE /\ chain' = [chain EXCEPT ![g].at = "images"]
                      /\ UNCHANGED calls
    /\ last' = [op |-> "chainFrame", run |-> g, images |-> images]
    /\ UNCHANGED <<engineState, react>>

\* an image with listeners fires 'load' or 'error'
loadOrError(g, i) ==
    /\ g \in DOMAIN wait
    /\ i \in wait[g].listening
    /\ settled(g, onLoadOrError([wait[g] EXCEPT !.listening = @ \ {i}]))
    /\ last' = [op |-> "loadOrError", run |-> g, image |-> i]
    /\ UNCHANGED <<engineState, react>>

\* the timer set by setTimeout(finish, timeout) expires
timeout(g) ==
    /\ g \in DOMAIN wait
    /\ wait[g].timer
    /\ settled(g, finish([wait[g] EXCEPT !.timer = FALSE]))
    /\ last' = [op |-> "timeout", run |-> g]
    /\ UNCHANGED <<engineState, react>>

\* the frame requested by the items effect runs
itemsFrame ==
    /\ react.itemsFrame # 0
    /\ react' = [react EXCEPT !.itemsFrame = 0]
    /\ calls' = updateItemsCalled(react, "itemsFrame", react.itemsFrame)
    /\ last' = [op |-> "itemsFrame", run |-> react.itemsFrame,
                on |-> react.masonryRef]
    /\ UNCHANGED <<engineState, chain, wait>>

\* waitForImages called on its own, outside any effect run (key 0)
waitForImages(el, images) ==
    /\ ~react.mounted
    /\ react.runs = 0
    /\ wait = EmptyMap
    /\ wait' = MapPut(wait, 0, waitForImagesR(el, images))
    /\ last' = [op |-> "waitForImages", el |-> el, images |-> images]
    /\ UNCHANGED <<engineState, react, chain, calls>>

WrapperRuns == 0..MaxInits

InitWrapper == InitWith("pooled", Opts(1, 2, TRUE, 0, <<>>), 5, TRUE, Pristine)

NextWrapper ==
    \/ \E ok \in BOOLEAN : Mount(ok)
    \/ \E itemsChanged \in BOOLEAN, ok \in BOOLEAN : Rerender(itemsChanged, ok)
    \/ Unmount
    \/ \E g \in WrapperRuns, images \in ChainImageLists : chainFrame(g, images)
    \/ \E g \in WrapperRuns, i \in 1..MaxImages : loadOrError(g, i)
    \/ \E g \in WrapperRuns : timeout(g)
    \/ itemsFrame

SpecWrapper == InitWrapper /\ [][NextWrapper]_vars

\* waitForImages alone: the call, the image events, the timer
NextImages ==
    \/ \E el \in {"element", "null"}, images \in ImageLists : waitForImages(el, images)
    \/ \E i \in 1..MaxImages : loadOrError(0, i)
    \/ timeout(0)

SpecImages == InitWrapper /\ [][NextImages]_vars

\* timers expire: a pending timeout is not postponed for ever; nothing is
\* assumed of the images, which may never load and never fail
SpecImagesFair == SpecImages /\ WF_vars(timeout(0))

(***************************************************************************)
(* What a layout pass leaves behind, read uniformly from both engines.     *)
(***************************************************************************)
\* a placement pass has been carried out on the current registry
Placed ==
    /\ phase = "active"
    /\ IF variant = "generator"
       THEN Len(positions) = Len(items)
       ELSE isConnected /\ width > 0 /\ Range(items) \subseteq DOMAIN itemStyle

placedX(i) == IF variant = "generator" THEN positions[i].x ELSE itemStyle[items[i]].x
placedY(i) == IF variant = "generator" THEN positions[i].y ELSE itemStyle[items[i]].y
placedWidth(i) ==
    IF variant = "generator" THEN positions[i].width ELSE itemStyle[items[i]].width
placedHeight(i) == offsetHeightOf(isConnected, children, content, items[i])

\* q * i = x for rationals q, x in lowest terms
IsMultiple(x, q, i) == x[1] * q[2] = q[1] * i * x[2]

\* the column an x offset denotes, given the pitch colW + gutter
columnOf(x, pitch, cols) ==
    IF cols = 1 THEN 0
    ELSE IF \E c \in 0..(cols - 1) : IsMultiple(x, pitch, c)
    THEN CHOOSE c \in 0..(cols - 1) : IsMultiple(x, pitch, c)
    ELSE -1

\* accumulated height of column c before item i is placed
RECURSIVE accBefore(_, _, _, _)
accBefore(i, c, pitch, cols) ==
    IF i <= 1 THEN 0
    ELSE accBefore(i - 1, c, pitch, cols)
         + (IF columnOf(placedX(i - 1), pitch, cols) = c
            THEN placedHeight(i - 1) + options.gutter ELSE 0)

\* the placement read back from the DOM is the greedy shortest-column
\* placement of the registry, in registry order, ties to the lowest index
GreedilyPlaced ==
      LET cols == Len(columnHeights)
          colW == ColWidth(clientWidth, options.gutter, cols)
          pitch == <<colW[1] + options.gutter * colW[2], colW[2]>>
      IN /\ cols >= 1
         /\ \A i \in DOMAIN items :
              LET col == columnOf(placedX(i), pitch, cols)
                  acc(c) == accBefore(i, c, pitch, cols)
              IN /\ IsMultiple(placedX(i), pitch, col)
                 /\ \A c \in 0..(cols - 1) : acc(col) <= acc(c)
                 /\ \A c \in 0..(col - 1) : acc(col) < acc(c)
                 /\ placedY(i) = acc(col)
         /\ \A c \in 0..(cols - 1) :
              columnHeights[c + 1] = accBefore(Len(items) + 1, c, pitch, cols)

\* C1: in a layout pass every item, in registry order, goes to the lowest-
\* indexed column of minimal accumulated height, at x = column * (colW +
\* gutter) and y = that column's accumulator, which then grows by the
\* item's height + gutter.
C1_GreedyPlacement == Placed => GreedilyPlaced

\* C1 witness: the documented scenario, heights [100,150,80,200,120] in two
\* columns with gutter 10, has been laid out.
C1_Witness ==
    /\ Placed
    /\ variant = "pooled"
    /\ options.items = ScenarioHeights
    /\ options.gutter = 10
    /\ Len(columnHeights) = 2
    /\ [i \in 1..5 |-> <<placedX(i), placedY(i)>>]
         = << <<FracZero, 0>>, <<(<<270, 1>>), 0>>, <<FracZero, 110>>,
              <<(<<270, 1>>), 160>>, <<FracZero, 200>> >>

\* C2: for W > 0 the pass uses c = max(1, floor((W + g) / (m + g))) columns
\* of a width colW with colW * c + g * (c - 1) = W.
C2_ColumnPlan ==
    (Placed /\ clientWidth > 0) =>
      LET W == clientWidth
          g == options.gutter
          m == options.minColWidth
          c == Len(columnHeights)
      IN /\ IF W + g < m + g THEN c = 1
            ELSE c * (m + g) <= W + g /\ W + g < (c + 1) * (m + g)
         /\ variant = "generator" => columns = c
         /\ \A i \in DOMAIN items :
              placedWidth(i)[1] * c + g * (c - 1) * placedWidth(i)[2]
                = W * placedWidth(i)[2]

\* C2 witness: W = 1000, g = 16, m = 250 gives three columns of width 968/3.
C2_Witness ==
    /\ Placed
    /\ clientWidth = 1000 /\ options.gutter = 16 /\ options.minColWidth = 250
    /\ Len(columnHeights) = 3
    /\ Len(items) >= 1
    /\ \A i \in DOMAIN items : placedWidth(i) = <<968, 3>>

(***************************************************************************)
(* Resize Coordinator and lifecycle claims.                                *)
(***************************************************************************)
\* the layout in place was computed for container width W
LaidOutFor(W) ==
    LET c == ColumnCount(W, options.gutter, options.minColWidth)
        colW == ColWidth(W, options.gutter, c)
    IN IF variant = "generator"
       THEN /\ columns = c
            /\ Len(columnHeights) = c
            /\ Len(positions) = Len(items)
            /\ \A i \in DOMAIN items :
                 /\ positions[i].width = colW
                 /\ items[i] \in DOMAIN itemStyle
                 /\ itemStyle[items[i]].width = colW
       ELSE /\ lastContainerWidth = W
            /\ (isConnected /\ W > 0) =>
                 /\ Len(columnHeights) = c
                 /\ \A i \in DOMAIN items :
                      /\ items[i] \in DOMAIN itemStyle
                      /\ itemStyle[items[i]].width = colW

\* C3 (as stated): k >= 1 notifications arriving before the scheduled frame
\* runs give exactly one relayout, and it uses the width read when the
\* frame runs.
C3_ExactlyOneRelayout ==
    last.op = "frame" =>
        /\ last.k >= 1
        /\ frames = {}
        /\ last.relayouts = 1
        /\ LaidOutFor(clientWidth)

\* C3 (amended): k >= 1 notifications arriving before the scheduled frame
\* runs leave one frame pending, and when it runs there is at most one
\* relayout: exactly one in the generator engine, and in the pooled engine
\* exactly one if the width read by the frame differs from the width the
\* previous frame relayout recorded (initially 0), none otherwise; a
\* relayout that runs uses the width read when the frame runs.
C3_CoalescedRelayout ==
    /\ Cardinality(frames) <= 1
    /\ (burst >= 1) <=> (frames # {})
    /\ last.op = "frame" =>
        /\ last.k >= 1
        /\ frames = {}
        /\ last.relayouts =
             (IF variant = "pooled" /\ last.cache = clientWidth THEN 0 ELSE 1)
        /\ last.relayouts = 1 => LaidOutFor(clientWidth)

\* C3 witness: three notifications were coalesced into one frame, which
\* has run and relaid out the grid.
C3_Witness ==
    /\ last.op = "frame"
    /\ last.k = 3
    /\ last.relayouts = 1
    /\ clientWidth > 0

\* C4: once destroy() has been called nothing relayouts again: the frame
\* pending at destroy is cancelled, the observer and the window listener
\* are gone, and later resizes neither notify nor schedule.
C4_NoRelayoutAfterDestroy ==
    phase = "destroyed" =>
        /\ frames = {}
        /\ ~observing
        /\ ~windowListener
        /\ ~roPending
        /\ ~winPending
        /\ last.op \notin {"frame", "notify"}

\* C4 witness: destroy() was called while a relayout frame was pending.
C4_Witness ==
    /\ phase = "destroyed"
    /\ last.op = "destroy"
    /\ last.pending
    /\ frames = {}

\* C5 (as stated): after destroy() every public operation is a no-op: the
\* container has no children and no inline style, and the registry,
\* positions and column state stay empty.
C5_NoOpAfterDestroy ==
    phase = "destroyed" =>
        /\ children = <<>>
        /\ cStyle = EmptyStyle
        /\ items = <<>>
        /\ positions = <<>>
        /\ columnHeights = <<>>

\* C6: destroy() is idempotent: a destroy() that directly follows a
\* destroy() changes nothing in the container, the engine or the event loop.
C6_DestroyIdempotent ==
    [][(last.op = "destroy" /\ last'.op = "destroy")
          => UNCHANGED <<dom, engine, loop, phase, options>>]_vars

\* C6 witness: destroy() has been called twice in a row.
C6_Witness ==
    /\ phase = "destroyed"
    /\ last.op = "destroy"
    /\ last.again

\* C7 (as stated): after destroy() the container's class list and inline
\* style are what they were immediately before construct.
C7_StylingReverted ==
    (phase = "destroyed" /\ last.op = "destroy") =>
        /\ classList = preClass
        /\ cStyle = preStyle

(***************************************************************************)
(* Item Registry claims.                                                   *)
(***************************************************************************)
\* the registry holds one distinct handle per datum, attached in order,
\* each showing the rendering of its datum
Replaced(data) ==
    /\ Len(items) = Len(data)
    /\ Cardinality(Range(items)) = Len(items)
    /\ children = items
    /\ \A i \in DOMAIN items :
         /\ items[i] \in DOMAIN content
         /\ content[items[i]] = data[i]

\* bottom edge of the lowest item
lowestEdge == SeqMax([i \in DOMAIN items |-> placedY(i) + placedHeight(i)])

\* a full layout pass over exactly the registry's handles is in place
LayoutApplied ==
    LET c == ColumnCount(clientWidth, options.gutter, options.minColWidth)
    IN /\ Range(items) \subseteq DOMAIN itemStyle
       /\ items # <<>> =>
            /\ Len(columnHeights) = c
            /\ \A i \in DOMAIN items :
                 placedWidth(i) = ColWidth(clientWidth, options.gutter, c)
            /\ GreedilyPlaced
       /\ "height" \in DOMAIN cStyle
       /\ cStyle["height"] = lowestEdge

\* C8 (as stated): when updateItems(newItems) returns on an active
\* instance, the registry holds exactly one handle per element of newItems,
\* in order, each showing its rendering, and a full layout pass over these
\* handles has been applied.
C8_FullReplacement ==
    (last.op = "updateItems" /\ phase = "active") =>
        /\ Replaced(last.newItems)
        /\ LayoutApplied

\* C8 (amended): when updateItems(newItems) returns on an active instance,
\* the registry holds exactly one handle per element of newItems, in order,
\* each showing its rendering; a full layout pass over these handles has
\* been applied if the container is connected and its width is positive,
\* and otherwise no item is placed (column state stays empty; a connected
\* container of width 0 gets height 0).
C8_ReplacementLaidOutWhenVisible ==
    (last.op = "updateItems" /\ phase = "active") =>
        /\ Replaced(last.newItems)
        /\ IF isConnected /\ width > 0
           THEN /\ LayoutApplied
                /\ Len(columnHeights) =
                     ColumnCount(clientWidth, options.gutter, options.minColWidth)
           ELSE /\ columnHeights = <<>>
                /\ isConnected => ("height" \in DOMAIN cStyle /\ cStyle["height"] = 0)

\* C8 witness: updateItems replaced <<1, 2>> by <<2, 1>> in a visible
\* two-column container, reusing both pooled elements.
C8_Witness ==
    /\ last.op = "updateItems"
    /\ phase = "active"
    /\ last.newItems = <<2, 1>>
    /\ isConnected
    /\ Len(columnHeights) = 2
    /\ [i \in DOMAIN items |-> content[items[i]]] = <<2, 1>>

\* C9: addItems(count) on n items leaves n + count items in the registry
\* and in the container, with a position recomputed for every one of them.
C9_AddItemsGrows ==
    last.op = "addItems" =>
        /\ Len(items) = last.n + last.count
        /\ Cardinality(Range(items)) = Len(items)
        /\ children = items
        /\ Len(positions) = Len(items)
        /\ columns = ColumnCount(clientWidth, options.gutter, options.minColWidth)
        /\ Len(columnHeights) = columns
        /\ \A i \in DOMAIN items :
             /\ positions[i].height = placedHeight(i)
             /\ positions[i].width = ColWidth(clientWidth, options.gutter, columns)
             /\ items[i] \in DOMAIN itemStyle
             /\ itemStyle[items[i]].x = positions[i].x
             /\ itemStyle[items[i]].y = positions[i].y
        /\ GreedilyPlaced

\* C9 witness: addItems(1) on an active instance holding at least one item.
C9_Witness ==
    /\ last.op = "addItems"
    /\ phase = "active"
    /\ last.n >= 1
    /\ last.count >= 1
    /\ Len(positions) = last.n + last.count

\* C10: shuffleItems() keeps the set of handles in the registry and in the
\* container: none is lost or duplicated, only the order may change.
C10_ShufflePreservesMembership ==
    last.op = "shuffleItems" =>
        /\ Len(items) = Len(last.before)
        /\ Range(items) = Range(last.before)
        /\ Cardinality(Range(items)) = Len(items)
        /\ Len(children) = Len(items)
        /\ Range(children) = Range(last.before)

\* C10 witness: a shuffle that changed the order of at least two items.
C10_Witness ==
    /\ last.op = "shuffleItems"
    /\ Len(items) >= 2
    /\ items # last.before

(***************************************************************************)
(* Transition Engine and container height claims.                          *)
(***************************************************************************)
\* C11 (as stated): with animate = false no layout pass ever gives an item
\* a timed transition: every item that has been positioned has its
\* transition suppressed.
C11_NoTransitionWhenAnimateOff ==
    (phase = "active" /\ ~options.animate) =>
        \A h \in DOMAIN itemStyle : itemStyle[h].transition = "none"

\* C12 (as stated): when construct returns on a visible container every
\* initial item has its position, applied with no transition, even when
\* animate is enabled.
C12_FirstPassUnanimated ==
    (last.op = "construct" /\ clientWidth > 0) =>
        \A i \in DOMAIN items :
            /\ items[i] \in DOMAIN itemStyle
            /\ itemStyle[items[i]].transition = "none"

\* C13 (as stated): after a layout pass over a non-empty item list the
\* height applied to the container is the largest column accumulator minus
\* exactly one gutter.
C13_HeightMinusTrailingGutter ==
    (Placed /\ items # <<>>) =>
        /\ "height" \in DOMAIN cStyle
        /\ cStyle["height"] = SeqMax(columnHeights) - options.gutter

\* tallest item of the registry, and the spread of the column accumulators
maxItemHeight == SeqMax([i \in DOMAIN items |-> placedHeight(i)])
columnSpread == SeqMax(columnHeights) - SeqMin(columnHeights)

\* C14 (as stated): after placement the tallest and the shortest column
\* accumulator differ by at most the largest single item height.
C14_BalanceByItemHeight ==
    Placed => columnSpread <= maxItemHeight

\* C14 (amended): after placement the tallest and the shortest column
\* accumulator differ by at most the largest single item height plus one
\* gutter (every accumulator step is an item height plus the gutter).
C14_BalanceByItemHeightPlusGutter ==
    Placed => columnSpread <= maxItemHeight + options.gutter

\* C14 witness: three or more items in several columns with a positive
\* gutter, where the spread reaches the bound.
C14_Witness ==
    /\ Placed
    /\ Len(columnHeights) >= 2
    /\ Len(items) >= 3
    /\ options.gutter > 0
    /\ columnSpread = maxItemHeight + options.gutter

\* C15: updateItems called twice in a row with the same items, with no
\* change of the container in between, leaves every item's position and
\* width and the container height exactly as the first call left them.
C15_UpdateItemsIdempotent ==
    [][(/\ phase = "active"
        /\ last.op = "updateItems"
        /\ last'.op = "updateItems"
        /\ last'.newItems = last.newItems)
          => UNCHANGED <<items, children, itemStyle, cStyle, columnHeights>>]_vars

\* C15 witness: the same two-item list was passed twice in a row to a
\* visible instance.
C15_Witness ==
    /\ phase = "active"
    /\ last.op = "updateItems"
    /\ last.again
    /\ Len(items) = 2
    /\ isConnected
    /\ width > 0
    /\ \E i \in DOMAIN items : itemStyle[items[i]].y > 0

(***************************************************************************)
(* Construction and configuration claims.                                  *)
(***************************************************************************)
\* C16: construct with an absent container fails at once with an error
\* raised to the caller: no listener is subscribed, no item is created and
\* nothing of the container, the registry or the event loop is changed.
C16_AbsentContainerFails ==
    container = "null" =>
        /\ phase \in {"uninit", "failed"}
        /\ phase = "failed" =>
             /\ last.op = "construct"
             /\ last.threw \in {"Error", "TypeError"}
        /\ ~observing
        /\ ~windowListener
        /\ frames = {}
        /\ items = <<>> /\ itemPool = <<>> /\ children = <<>>
        /\ positions = <<>> /\ columnHeights = <<>>
        /\ classList = preClass /\ cStyle = preStyle

\* C16 witness: the generator engine was constructed on null and raised.
C16_Witness ==
    /\ container = "null"
    /\ variant = "generator"
    /\ phase = "failed"
    /\ last.threw = "TypeError"

\* fields and class-name slots of a resolved configuration
RequiredFields(v) ==
    {"gutter", "minColWidth", "animate", "transitionDuration", "classNames"}
        \cup (IF v = "generator" THEN {"initialItems", "itemContent"} ELSE {"items"})
ClassNameSlots(v) ==
    IF v = "generator" THEN DOMAIN GeneratorClassNames ELSE DOMAIN PooledClassNames

\* C17 (as stated): whatever subset of the options and of the class-name
\* slots the caller supplies, the resolved configuration has every field
\* and every class-name slot populated.
C17_ResolvedFullyPopulated ==
    (container = "element" /\ phase # "uninit") =>
        /\ RequiredFields(variant) \subseteq DOMAIN options
        /\ ClassNameSlots(variant) \subseteq DOMAIN options.classNames

\* C18 (as stated): an instance constructed without initialItems resolves
\* it to 30 and holds 30 items after construct.
C18_DefaultInitialItems ==
    (/\ variant = "generator"
     /\ phase = "active"
     /\ last.op = "construct"
     /\ "initialItems" \notin DOMAIN last.supplied) =>
        /\ options.initialItems = 30
        /\ Len(items) = 30

(***************************************************************************)
(* Degenerate widths.                                                      *)
(***************************************************************************)
\* C19 (as stated): a relayout frame that runs while the connected
\* container has width 0 sets the container height to 0 and rewrites no
\* item position; a relayout frame that runs once the width is positive
\* again leaves every item positioned for that width.
C19_ZeroWidthDegrades ==
    [][(last'.op = "frame" /\ isConnected) =>
          IF width = 0
          THEN last'.relayouts = 1 =>
                 /\ "height" \in DOMAIN cStyle'
                 /\ cStyle'["height"] = 0
                 /\ itemStyle' = itemStyle
          ELSE \A i \in DOMAIN items :
                 /\ items[i] \in DOMAIN itemStyle'
                 /\ itemStyle'[items[i]].width =
                      ColWidth(width, options.gutter,
                               ColumnCount(width, options.gutter, options.minColWidth))
       ]_vars

\* the column count the planner derives for the container as it is now
derivedColumns == ColumnCount(clientWidth, options.gutter, options.minColWidth)

\* the column-state array has one non-negative entry per derived column
ColumnStateMatches ==
    /\ derivedColumns >= 1
    /\ Len(columnHeights) = derivedColumns
    /\ variant = "generator" => columns = derivedColumns
    /\ \A c \in DOMAIN columnHeights : columnHeights[c] >= 0
    /\ clientWidth = 0 => Len(columnHeights) = 1

\* C20 (as stated): after a layout pass the derived column count is at
\* least 1 and the column-state array has exactly that many entries, all
\* >= 0, a zero-width container collapsing to a single column.
C20_ColumnStateMatchesCount ==
    phase = "active" => ColumnStateMatches

\* C20 (amended): in every layout pass that places items the derived
\* column count is at least 1 and the column-state array has exactly that
\* many entries, all >= 0. The generator engine runs such a pass at every
\* width, a zero-width container collapsing to a single column; the pooled
\* engine runs it only for a connected container of positive width, and at
\* width 0 it places nothing and leaves the column state empty.
C20_ColumnStateWhenPlaced ==
    phase = "active" =>
        IF variant = "generator" \/ clientWidth > 0
        THEN ColumnStateMatches
        ELSE columnHeights = <<>>

\* C20 witness: the generator engine laid out two or more items in a
\* zero-width container, in a single column.
C20_Witness ==
    /\ phase = "active"
    /\ variant = "generator"
    /\ clientWidth = 0
    /\ Len(items) >= 2
    /\ Len(columnHeights) = 1
    /\ columnHeights[1] > 0

(***************************************************************************)
(* Edge cases of a layout pass.                                            *)
(***************************************************************************)
\* C21: a layout pass over an empty item list leaves every column
\* accumulator at zero and sets the container height to zero.
C21_EmptyListZero ==
    (phase = "active" /\ items = <<>>) =>
        /\ \A c \in DOMAIN columnHeights : columnHeights[c] = 0
        /\ (variant = "generator" \/ clientWidth > 0) =>
              Len(columnHeights) = derivedColumns
        /\ "height" \in DOMAIN cStyle
        /\ cStyle["height"] = 0

\* C21 witness: the pooled engine laid out an empty list in several
\* columns with a positive gutter.
C21_Witness ==
    /\ phase = "active"
    /\ variant = "pooled"
    /\ items = <<>>
    /\ options.gutter > 0
    /\ Len(columnHeights) >= 2
    /\ cStyle["height"] = 0

\* y offset of item i when the registry is stacked in one column
RECURSIVE stackedTop(_)
stackedTop(i) ==
    IF i <= 1 THEN 0
    ELSE stackedTop(i - 1) + placedHeight(i - 1) + options.gutter

detached(i) == items[i] \notin Range(children)

\* a placement pass over the registry has just been carried out
PassJustRan ==
    /\ phase = "active"
    /\ \/ last.op = "calculateLayout"
       \/ last.op = "frame" /\ last.relayouts = 1 /\ (variant = "pooled" => clientWidth > 0)

\* the accumulator of item i's column stands at y right after item i: the
\* next item of that column, or the column's final height, is at y
nextInColumnAt(i, y) ==
    LET later == {j \in DOMAIN items : j > i /\ placedX(j) = placedX(i)}
    IN IF later = {}
       THEN \E c \in DOMAIN columnHeights :
               /\ columnHeights[c] = y
               /\ IsMultiple(placedX(i),
                             FracAddInt(placedWidth(i), options.gutter), c - 1)
       ELSE \E j \in later :
               /\ placedY(j) = y
               /\ \A k \in later : j <= k

\* C23: an item that cannot be measured (its element is detached) counts
\* as height 0 and the pass goes on: every item, that one included, gets
\* its position, and the column the item went to grows by the gutter only.
C23_UnmeasurableCountsZero ==
    PassJustRan =>
        /\ Placed
        /\ GreedilyPlaced
        /\ \A i \in DOMAIN items :
             /\ placedWidth(i) = ColWidth(clientWidth, options.gutter, derivedColumns)
             /\ detached(i) =>
                  /\ variant = "generator" => positions[i].height = 0
                  /\ nextInColumnAt(i, placedY(i) + options.gutter)

\* C23 witness: a pass ran over two items whose first, of positive natural
\* height, was detached, and placed both.
C23_Witness ==
    /\ PassJustRan
    /\ Len(items) = 2
    /\ detached(1)
    /\ ~detached(2)
    /\ content[items[1]] > 0
    /\ options.gutter > 0
    /\ Placed

\* C24: placement is deterministic: a layout pass run again on the same
\* inputs (item heights, container width, gutter, minimum column width)
\* gives every item the position it had and every column the accumulator
\* it had, whatever the earlier pass left behind.
C24_DeterministicPlacement ==
    [][(phase = "active" /\ last'.op \in {"calculateLayout", "updateItems"}) =>
          /\ positions' = positions
          /\ columnHeights' = columnHeights
          /\ columns' = columns
          /\ cStyle' = cStyle
          /\ variant = "pooled" => itemStyle' = itemStyle
       ]_vars

\* C24 witness: a second pass has run over three items of different
\* heights in several columns.
C24_Witness ==
    /\ phase = "active"
    /\ last.op \in {"calculateLayout", "updateItems"}
    /\ Len(items) = 3
    /\ Len(columnHeights) >= 2
    /\ \E i, j \in DOMAIN items : placedHeight(i) # placedHeight(j)

\* C25: minColWidth is a true minimum and the column count is maximal:
\* for a container at least minColWidth wide, the column width is at
\* least minColWidth, and one more column would not fit: c + 1 columns of
\* width minColWidth with c gutters exceed the container width.
C25_MinColWidthRespected ==
    (Placed /\ clientWidth >= options.minColWidth) =>
        LET W == clientWidth
            g == options.gutter
            m == options.minColWidth
            c == Len(columnHeights)
        IN /\ c >= 1
           /\ W - (c - 1) * g >= c * m
           /\ \A i \in DOMAIN items :
                /\ placedWidth(i)[1] >= m * placedWidth(i)[2]
                /\ placedWidth(i)[1] * c = (W - (c - 1) * g) * placedWidth(i)[2]
           /\ (c + 1) * m + c * g > W

\* C25 witness: several columns, each strictly wider than minColWidth,
\* hold at least one item.
C25_Witness ==
    /\ Placed
    /\ clientWidth >= options.minColWidth
    /\ Len(columnHeights) >= 2
    /\ options.gutter > 0
    /\ Len(items) >= 1
    /\ placedWidth(1)[1] > options.minColWidth * placedWidth(1)[2]

(***************************************************************************)
(* Position alignment claims (generator engine).                           *)
(***************************************************************************)
\* index of handle h in the registry after the step
indexAfter(h) == CHOOSE i \in DOMAIN items' : items'[i] = h

\* C26 (as stated): in every animated relayout (resize frame, addItems,
\* shuffleItems) an item that was rendered before the pass starts its
\* transition where the previous pass rendered that same item and ends at
\* its new position; an item never rendered before starts from (0, 0).
C26_TransitionStartsAtOwnPosition ==
    [][(/\ variant = "generator"
        /\ phase = "active"
        /\ last'.op \in {"frame", "addItems", "shuffleItems"}) =>
          \A h \in Range(items') :
             /\ h \in DOMAIN itemStyle'
             /\ itemStyle'[h].transition = "transform"
             /\ itemStyle'[h].x = positions'[indexAfter(h)].x
             /\ itemStyle'[h].y = positions'[indexAfter(h)].y
             /\ IF h \in DOMAIN itemStyle
                THEN /\ itemStyle'[h].startX = itemStyle[h].x
                     /\ itemStyle'[h].startY = itemStyle[h].y
                ELSE /\ itemStyle'[h].startX = FracZero
                     /\ itemStyle'[h].startY = 0
       ]_vars

\* C27 (as stated): after any sequence of public operations and resize
\* relayouts the positions array has exactly one record per registered
\* item, and positions[i] is the record computed for items[i].
C27_PositionsAligned ==
    (variant = "generator" /\ phase \in {"active", "destroyed"}) =>
        /\ Len(positions) = Len(items)
        /\ \A i \in DOMAIN items : positions[i].height = placedHeight(i)

(***************************************************************************)
(* Resize Coordinator: width cache and frame scheduling.                   *)
(***************************************************************************)
\* every notification has been delivered and no relayout frame is pending
Quiescent == ~roPending /\ ~winPending /\ frames = {}

\* C28 (as stated): whenever every resize notification has been delivered,
\* no relayout frame is pending and the container is connected with
\* positive width, the applied layout (column count, column width, item
\* positions) is the one derived from the container's current width: the
\* last-width cache never makes a frame skip a relayout that is due.
C28_LayoutMatchesCurrentWidth ==
    (/\ variant = "pooled"
     /\ phase = "active"
     /\ Quiescent
     /\ isConnected
     /\ width > 0) =>
        /\ Len(columnHeights) = derivedColumns
        /\ \A i \in DOMAIN items :
             /\ items[i] \in DOMAIN itemStyle
             /\ placedWidth(i) = ColWidth(clientWidth, options.gutter, derivedColumns)
        /\ GreedilyPlaced

\* the frame handle the engine has stored
storedFrame == IF variant = "generator" THEN resizeRaf ELSE rafId

\* C29: at most one relayout frame is scheduled and not yet run, and it is
\* the one the engine holds the handle of: a newer notification, from the
\* resize observer or from the window, replaces the pending frame.
C29_AtMostOnePendingFrame ==
    /\ Cardinality(frames) <= 1
    /\ frames \subseteq {storedFrame}

\* C29 witness: the generator engine has one frame pending after a second
\* notification arrived while the first frame was still pending.
C29_Witness ==
    /\ variant = "generator"
    /\ phase = "active"
    /\ last.op = "notify"
    /\ burst >= 2
    /\ Cardinality(frames) = 1

\* a layout pass has just placed the registry
PlacementJustRan ==
    /\ phase = "active"
    /\ \/ last.op \in {"construct", "updateItems"}
       \/ last.op = "frame" /\ last.relayouts = 1
    /\ variant = "pooled" => clientWidth > 0

\* C30: a layout pass sets every item's width to the current column width
\* at once, and the only property that ever gets a timed transition is the
\* translation transform.
C30_OnlyTransformAnimated ==
    /\ \A h \in DOMAIN itemStyle : itemStyle[h].transition \in {"none", "transform"}
    /\ PlacementJustRan =>
         \A i \in DOMAIN items :
            /\ items[i] \in DOMAIN itemStyle
            /\ itemStyle[items[i]].width =
                 ColWidth(clientWidth, options.gutter, derivedColumns)

\* C30 witness: an animated resize frame has placed two items in two
\* columns of the pooled engine.
C30_Witness ==
    /\ PlacementJustRan
    /\ variant = "pooled"
    /\ last.op = "frame"
    /\ Len(items) = 2
    /\ Len(columnHeights) = 2
    /\ \A i \in DOMAIN items :
         /\ itemStyle[items[i]].transition = "transform"
         /\ itemStyle[items[i]].width = ColWidth(clientWidth, options.gutter, 2)

(***************************************************************************)
(* C31: waitForImages always resolves, and resolves once.                  *)
(***************************************************************************)
\* C31: resolve is called at most once per promise; the promise is resolved
\* exactly when no image is left to wait for (the element is absent, holds
\* no image, or every image was complete, has loaded or has failed) or the
\* timer has expired; and every call is eventually resolved, even when an
\* image never loads and never fails.
C31_ResolvesExactlyOnce ==
    /\ [](\A g \in DOMAIN wait :
            /\ wait[g].resolves <= 1
            /\ (wait[g].resolves = 1) <=> (wait[g].listening = {} \/ ~wait[g].timer))
    /\ ((0 \in DOMAIN wait) ~> (0 \in DOMAIN wait /\ wait[0].resolves = 1))

\* the timer resolved the promise while an image was still loading
C31_Witness ==
    /\ last.op = "timeout"
    /\ 0 \in DOMAIN wait
    /\ wait[0].resolves = 1
    /\ wait[0].listening # {}

(***************************************************************************)
(* C32: no deferred step of the wrapper outlives its effect's cleanup.     *)
(***************************************************************************)
\* C32: once the cleanup of an effect run has run, no step scheduled during
\* that run (its initial-layout chain or the frame of the items effect)
\* calls updateItems on a layout instance.
C32_NoCallAfterCleanup == \A c \in calls : ~c.cleaned

\* the initial-layout chain by itself never calls updateItems after cleanup
ChainStopsAfterCleanup == \A c \in calls : c.by = "chain" => ~c.cleaned

(***************************************************************************)
(* C33: items of one column never overlap.                                 *)
(***************************************************************************)
\* x - y = k * q for rationals x, y, q and an integer k
DiffIsMultiple(x, y, q, k) ==
    (x[1] * y[2] - y[1] * x[2]) * q[2] = k * q[1] * x[2] * y[2]

\* items i < j share a column and no item between them is in that column
consecutiveInColumn(i, j) ==
    /\ placedX(i) = placedX(j)
    /\ \A k \in (i + 1)..(j - 1) : placedX(k) # placedX(i)

\* C33: after a layout pass, of two items with the same x the later one
\* starts at or below the earlier one's y + height + gutter, and exactly
\* there when no item of that column lies between them; two items with
\* different x are a non-zero whole number of (colW + gutter) apart.
C33_ColumnsDoNotOverlap ==
    Placed =>
      LET cols == Len(columnHeights)
          colW == ColWidth(clientWidth, options.gutter, cols)
          pitch == <<colW[1] + options.gutter * colW[2], colW[2]>>
      IN \A i \in DOMAIN items : \A j \in DOMAIN items :
           i < j =>
             IF placedX(i) = placedX(j)
             THEN /\ placedY(j) >= placedY(i) + placedHeight(i) + options.gutter
                  /\ consecutiveInColumn(i, j) =>
                        placedY(j) = placedY(i) + placedHeight(i) + options.gutter
             ELSE \E k \in 1..(cols - 1) :
                    \/ DiffIsMultiple(placedX(i), placedX(j), pitch, k)
                    \/ DiffIsMultiple(placedX(j), placedX(i), pitch, k)

\* a pass stacked two items in one column, a gutter apart, beside another
\* column that holds an item
C33_Witness ==
    /\ Placed
    /\ options.gutter > 0
    /\ \E i \in DOMAIN items : \E j \in DOMAIN items : \E k \in DOMAIN items :
         /\ i < j
         /\ consecutiveInColumn(i, j)
         /\ placedHeight(i) > 0
         /\ placedY(j) > 0
         /\ placedX(k) # placedX(i)

(***************************************************************************)
(* C34: the Measurement Stage restores what it touches.                    *)
(***************************************************************************)
\* C34: when measureItems returns, every item has been measured and every
\* item's display, visibility, position and width, and the rest of its
\* inline style (no item has been positioned yet), are what they were
\* before the measurement.
C34_MeasurementRestoresStyles ==
    measure.ran =>
      /\ DOMAIN measure.after = DOMAIN measure.before
      /\ Len(measure.heights) = Cardinality(DOMAIN measure.before)
      /\ \A h \in DOMAIN measure.before :
           /\ measure.after[h].inline = measure.before[h].inline
           /\ measure.after[h].style = measure.before[h].style

\* a relayout frame measured, at a new column width, an item a page script
\* had hidden and a previous pass had sized
C34_Witness ==
    /\ last.op = "frame"
    /\ measure.ran
    /\ \E h \in DOMAIN measure.before :
         /\ measure.before[h].inline.display = "none"
         /\ measure.before[h].style.width # <<0, 0>>
         /\ measure.before[h].style.width # measure.colWidth
         /\ h \in DOMAIN itemStyle
         /\ itemStyle[h].width = measure.colWidth

(***************************************************************************)
(* C35: the registry and the container's children agree.                   *)
(***************************************************************************)
\* every handle of the registry is a child of the container exactly once,
\* and the children that are registry handles come in registry order
attachedInOrder(its, kids) ==
    /\ Cardinality(Range(its)) = Len(its)
    /\ SelectSeq(kids, LAMBDA h : h \in Range(its)) = its

\* C35: after construct, updateItems, addItems and shuffleItems on an
\* active instance every registry handle is attached to the container
\* exactly once, in registry order; after these and after generateItems, a
\* handle that left the registry is no longer a child of the container.
C35_RegistryAttachedInOrder ==
    [][/\ (phase' = "active"
           /\ last'.op \in {"construct", "updateItems", "addItems", "shuffleItems"})
          => attachedInOrder(items', children')
       /\ (phase' = "active"
           /\ last'.op \in {"construct", "updateItems", "addItems", "shuffleItems",
                            "generateItems"})
          => (Range(items) \ Range(items')) \cap Range(children') = {}]_vars

\* an operation cut the registry from two handles to one
C35_Witness ==
    /\ phase = "active"
    /\ \/ last.op = "generateItems" /\ last.n = 2 /\ last.count = 1
       \/ last.op = "updateItems" /\ Len(last.newItems) = 1 /\ Len(itemPool) = 1
    /\ Len(items) = 1
    /\ children = items

(***************************************************************************)
(* C36: the container height is never negative.                            *)
(***************************************************************************)
\* C36: the height an active instance has assigned to its container, by a
\* layout pass or by the fallback stacking, is never negative.  (cStyle
\* holds the length the engine assigns to container.style.height.)
C36_ContainerHeightNotNegative ==
    (phase = "active" /\ options.gutter >= 0 /\ "height" \in DOMAIN cStyle)
        => cStyle["height"] >= 0

(***************************************************************************)
(* C37: the stored frame handle and the coordinator's state.               *)
(***************************************************************************)
\* C37: the stored frame handle is non-null exactly while a relayout frame
\* is scheduled and has not yet run (Pending), and null (Idle) once the
\* frame has run or has been cancelled.
C37_HandleReflectsState == (storedFrame # 0) <=> (frames # {})

====
